---------------------------- MODULE Spec2Model ----------------------------
(***************************************************************************)
(* A model of deja's conversation indexing engine (src/lib):               *)
(*   - extraction.py : todo snapshots, final_todos, episodes               *)
(*   - cache.py      : the mtime/schema driven cache scan                  *)
(*   - commands/search.py : the search ranker                             *)
(* Each part has its own specification (SpecExtract, SpecCache,            *)
(* SpecSearch) over its own variables; the other variables stay put.       *)
(***************************************************************************)
EXTENDS Integers, Sequences, FiniteSets, TLC

VARIABLES
    \* extraction.py, extract_conversation_data: the loop over the entries
    message_index,      \* user/assistant entries counted so far
    todo_snapshots,     \* the snapshots appended so far
    cur_type,           \* type of the entry the loop is at ("none" before the first)
    event,              \* the tool_use item just handled, if the step was one (history)
    \* cache.py: the process, the disk and the log files
    files,              \* path -> the log file there (NoFile when there is none)
    diskCache,          \* the cache file at CACHE_PATH
    cache,              \* _conversation_cache when it is a dict
    cacheShape,         \* "map", or "nonmap" when json.load returned no dict
    cache_loaded,       \* _cache_loaded
    scan,               \* what the ensure_cache_fresh call just made did (history)
    \* commands/search.py: what a search reads, and what it returned
    conversations,      \* get_cache().items(): the cached records, in dict order
    notes_cache,        \* notes._notes_cache: session id -> notes
    now,                \* the day of datetime.now()
    searchOut,          \* the search call just made and its outcome (history)
    \* commands/read.py, commands/listing.py: what a command reads and returns
    sessions,           \* get_cache().items() with the log file of each session
    readOut,            \* the read or episodes call just made and its payload (history)
    \* stemmer.py: a word and what PorterStemmer.stem made of it
    stem_input,         \* the word given to stem
    stems               \* stem of the word, then the stem of that (history)

extractVars == <<message_index, todo_snapshots, cur_type, event>>

cacheVars == <<files, diskCache, cache, cacheShape, cache_loaded, scan>>

searchVars == <<conversations, notes_cache, now, searchOut>>

readVars == <<sessions, readOut>>

stemVars == <<stem_input, stems>>

vars == <<extractVars, cacheVars, searchVars, readVars, stemVars>>

(***************************************************************************)
(* Bounds of the model.                                                    *)
(***************************************************************************)
MaxMessages == 3        \* entries of type user/assistant in a log
MaxSnapshots == 3       \* todo snapshots in a log
MaxTodos == 2           \* todos in one list
MaxMtime == 2           \* modification times of the log files: 1..MaxMtime

(***************************************************************************)
(* Small helpers.                                                          *)
(***************************************************************************)
Range(s) == {s[i] : i \in 1..Len(s)}

SeqsUpTo(S, n) == UNION {[1..k -> S] : k \in 0..n}

Last(s) == s[Len(s)]

(***************************************************************************)
(* Inputs of the extraction: todo content strings, statuses, task ids.     *)
(* "" stands for an absent or empty field (both are falsy in the code).    *)
(* "deleted" is a status TaskUpdate carries that final_todos has no        *)
(* category for.                                                           *)
(***************************************************************************)
Contents == {"a", "b", ""}
Categories == {"completed", "in_progress", "pending"}
Statuses == Categories \cup {"deleted"}
TaskIds == {"1", "2", "7"}

\* A todo in TodoWrite format (it has a 'content' key): no id of its own.
\* TodoWrite lists carry completed and pending todos here; in_progress and
\* deleted arrive through TaskUpdate.
TodoWriteTodos == [id : {""}, content : {"a", "b"}, status : {"completed", "pending"}]

\* The input of a TaskCreate tool use: Task format (subject, no 'content').
TaskInputs ==
    [subject : Contents, description : {""}, id : {"", "7"}]
        \cup {[subject |-> "a", description |-> "d", id |-> ""]}

\* str(n) for the list lengths the model reaches.
Str(n) == CASE n = 1 -> "1" [] n = 2 -> "2" [] n = 3 -> "3" [] OTHER -> "4"

\* subject + ": " + description, as an atomic content string
Combine(subject, description) ==
    CASE subject = "a" -> "a: d"
      [] subject = "b" -> "b: d"
      [] OTHER -> ": d"

\* extraction.py normalize_task, Task format branch (lines 168-189)
normalize_task(task) ==
    [id |-> task.id,
     content |-> IF task.description # "" THEN Combine(task.subject, task.description)
                 ELSE task.subject,
     status |-> "pending"]

Snapshot(mi, todos) == [message_index |-> mi, todos |-> todos]

(***************************************************************************)
(* extraction.py calculate_episodes (lines 192-221).  The accumulator is   *)
(* the loop state: episodes, completed_todos, prev_message_idx.            *)
(***************************************************************************)
\* EpisodeStep closing an episode without advancing prev_message_idx
EpisodeStepNoAdvance(acc, todo, mi) ==
    IF todo.status = "completed" /\ todo.content # "" /\ todo.content \notin acc.completed_todos
    THEN [episodes |-> Append(acc.episodes,
                              [title |-> todo.content,
                               message_range |-> <<acc.prev_message_idx, mi>>,
                               completed_at |-> mi,
                               message_count |-> mi - acc.prev_message_idx]),
          completed_todos |-> acc.completed_todos \cup {todo.content},
          prev_message_idx |-> acc.prev_message_idx]
    ELSE acc

\* EpisodeStep closing an episode for every status but pending
EpisodeStepAll(acc, todo, mi) ==
    IF todo.status # "pending" /\ todo.content # "" /\ todo.content \notin acc.completed_todos
    THEN [episodes |-> Append(acc.episodes,
                              [title |-> todo.content,
                               message_range |-> <<acc.prev_message_idx, mi>>,
                               completed_at |-> mi,
                               message_count |-> mi - acc.prev_message_idx]),
          completed_todos |-> acc.completed_todos \cup {todo.content},
          prev_message_idx |-> mi]
    ELSE acc

\* EpisodeStep closing an episode at every completed sighting of a content
EpisodeStepRepeat(acc, todo, mi) ==
    IF todo.status = "completed" /\ todo.content # ""
    THEN [episodes |-> Append(acc.episodes,
                              [title |-> todo.content,
                               message_range |-> <<acc.prev_message_idx, mi>>,
                               completed_at |-> mi,
                               message_count |-> mi - acc.prev_message_idx]),
          completed_todos |-> acc.completed_todos \cup {todo.content},
          prev_message_idx |-> mi]
    ELSE acc

EpisodeStep(acc, todo, mi) ==
    IF todo.status = "completed" /\ todo.content # "" /\ todo.content \notin acc.completed_todos
    THEN [episodes |-> Append(acc.episodes,
                              [title |-> todo.content,
                               message_range |-> <<acc.prev_message_idx, mi>>,
                               completed_at |-> mi,
                               message_count |-> mi - acc.prev_message_idx]),
          completed_todos |-> acc.completed_todos \cup {todo.content},
          prev_message_idx |-> mi]
    ELSE acc

RECURSIVE EpisodesOfTodos(_, _, _, _)
EpisodesOfTodos(acc, todos, i, mi) ==
    IF i > Len(todos) THEN acc
    ELSE EpisodesOfTodos(EpisodeStep(acc, todos[i], mi), todos, i + 1, mi)

RECURSIVE EpisodesOfSnapshots(_, _, _)
EpisodesOfSnapshots(acc, snaps, k) ==
    IF k > Len(snaps) THEN acc
    ELSE EpisodesOfSnapshots(
             EpisodesOfTodos(acc, snaps[k].todos, 1, snaps[k].message_index),
             snaps, k + 1)

calculate_episodes(snaps) ==
    EpisodesOfSnapshots([episodes |-> <<>>, completed_todos |-> {}, prev_message_idx |-> 0],
                        snaps, 1).episodes

(***************************************************************************)
(* extraction.py extract_conversation_data, lines 317-334: final_todos,    *)
(* episodes, work_items.  final_todos[status] raises KeyError for a status *)
(* that is no category, and then no record is returned.                    *)
(***************************************************************************)
\* SnapshotForFinal reading the first snapshot instead of the latest
SnapshotForFinalFirst(snaps) == snaps[1]

SnapshotForFinal(snaps) == snaps[Len(snaps)]

RECURSIVE FinalFold(_, _, _)
FinalFold(final, todos, i) ==
    IF i > Len(todos) THEN final
    ELSE LET t == todos[i] IN
         FinalFold(IF t.content # "" /\ t.status \in Categories
                   THEN [final EXCEPT ![t.status] = Append(@, t.content)]
                   ELSE final,
                   todos, i + 1)

EmptyFinal == [c \in Categories |-> <<>>]

RECURSIVE FinalFoldAll(_, _, _)
FinalFoldAll(final, snaps, k) ==
    IF k > Len(snaps) THEN final
    ELSE FinalFoldAll(FinalFold(final, snaps[k].todos, 1), snaps, k + 1)

\* final_todos accumulating over every snapshot instead of the latest
final_todos_history(snaps) == FinalFoldAll(EmptyFinal, snaps, 1)

final_todos(snaps) ==
    IF snaps = <<>> THEN EmptyFinal
    ELSE FinalFold(EmptyFinal, SnapshotForFinal(snaps).todos, 1)

\* the KeyError of final_todos[status] (line 326)
ExtractRaises(snaps) ==
    /\ snaps # <<>>
    /\ \E i \in 1..Len(Last(snaps).todos) :
          /\ Last(snaps).todos[i].content # ""
          /\ Last(snaps).todos[i].status \notin Categories

episodes_of(snaps) == IF snaps = <<>> THEN <<>> ELSE calculate_episodes(snaps)

\* list(set(...)): the order is not determined, the model keeps the set
work_items(snaps) ==
    UNION {Range(final_todos(snaps)[c]) : c \in Categories}
        \cup {e.title : e \in {ep \in Range(episodes_of(snaps)) : ep.title # ""}}

(***************************************************************************)
(* extraction.py extract_conversation_data, the loop over the entries      *)
(* (lines 240-315).  An entry is one step; the tool_use items of an        *)
(* assistant entry are the steps of the inner loop, taken while the loop   *)
(* is at that entry.                                                       *)
(***************************************************************************)
NoEvent == [tool |-> "none"]

InitExtract ==
    /\ message_index = 0
    /\ todo_snapshots = <<>>
    /\ cur_type = "none"
    /\ event = NoEvent

\* an entry whose type is neither user nor assistant (lines 251-252 skip it)
OtherEntry ==
    /\ cur_type # "other"
    /\ cur_type' = "other"
    /\ event' = NoEvent
    /\ UNCHANGED <<message_index, todo_snapshots, cacheVars, searchVars, readVars, stemVars>>

\* a user entry; a non-empty 'todos' array appends a snapshot (lines 308-315)
UserEntry ==
    /\ message_index < MaxMessages
    /\ message_index' = message_index + 1
    /\ cur_type' = "user"
    /\ event' = NoEvent
    /\ \E todos \in SeqsUpTo(TodoWriteTodos, MaxTodos) :
          IF todos # <<>> /\ Len(todo_snapshots) < MaxSnapshots
          THEN todo_snapshots' = Append(todo_snapshots, Snapshot(message_index', todos))
          ELSE /\ todos = <<>>
               /\ UNCHANGED todo_snapshots
    /\ UNCHANGED <<cacheVars, searchVars, readVars, stemVars>>

\* an assistant entry (lines 251-254); its tool uses follow as steps
AssistantEntry ==
    /\ message_index < MaxMessages
    /\ message_index' = message_index + 1
    /\ cur_type' = "assistant"
    /\ event' = NoEvent
    /\ UNCHANGED <<todo_snapshots, cacheVars, searchVars, readVars, stemVars>>

\* TodoWrite replaces the whole list (lines 263-269)
ToolTodoWrite ==
    /\ cur_type = "assistant"
    /\ Len(todo_snapshots) < MaxSnapshots
    /\ \E todos \in SeqsUpTo(TodoWriteTodos, MaxTodos) :
          /\ todo_snapshots' = Append(todo_snapshots, Snapshot(message_index, todos))
          /\ event' = [tool |-> "TodoWrite"]
    /\ UNCHANGED <<message_index, cur_type, cacheVars, searchVars, readVars, stemVars>>

\* TaskCreateResult numbering every new task "1"
TaskCreateResultFirstId(snaps, input, mi) ==
    LET task == normalize_task(input)
        existing == IF snaps # <<>> THEN Last(snaps).todos ELSE <<>>
        withId == IF task.id = "" THEN [task EXCEPT !.id = "1"] ELSE task
    IN Append(snaps, Snapshot(mi, Append(existing, withId)))

\* TaskCreate appends one task to a copy of the latest list (lines 272-288)
TaskCreateResult(snaps, input, mi) ==
    LET task == normalize_task(input)
        existing == IF snaps # <<>> THEN Last(snaps).todos ELSE <<>>
        next_id == IF snaps # <<>> THEN Str(Len(existing) + 1) ELSE "1"
        withId == IF task.id = "" THEN [task EXCEPT !.id = next_id] ELSE task
    IN Append(snaps, Snapshot(mi, Append(existing, withId)))

ToolTaskCreate ==
    /\ cur_type = "assistant"
    /\ Len(todo_snapshots) < MaxSnapshots
    /\ IF todo_snapshots = <<>> THEN TRUE
       ELSE Len(Last(todo_snapshots).todos) < MaxTodos
    /\ \E input \in TaskInputs :
          /\ todo_snapshots' = TaskCreateResult(todo_snapshots, input, message_index)
          /\ event' = [tool |-> "TaskCreate", input |-> input]
    /\ UNCHANGED <<message_index, cur_type, cacheVars, searchVars, readVars, stemVars>>

\* TaskUpdateResult giving the new status to every todo of the list
TaskUpdateResultAll(snaps, task_id, new_status, mi) ==
    IF snaps # <<>> /\ task_id # "" /\ new_status # ""
    THEN LET old == Last(snaps).todos
             updated == [i \in 1..Len(old) |-> [old[i] EXCEPT !.status = new_status]]
         IN Append(snaps, Snapshot(mi, updated))
    ELSE snaps

\* TaskUpdateResult writing the status into the todos of the latest snapshot
\* itself (no copy of a todo) before appending them
TaskUpdateResultInPlace(snaps, task_id, new_status, mi) ==
    IF snaps # <<>> /\ task_id # "" /\ new_status # ""
    THEN LET old == Last(snaps).todos
             updated == [i \in 1..Len(old) |->
                            IF old[i].id = task_id
                            THEN [old[i] EXCEPT !.status = new_status]
                            ELSE old[i]]
         IN Append([snaps EXCEPT ![Len(snaps)].todos = updated], Snapshot(mi, updated))
    ELSE snaps

\* TaskUpdate replaces the status of the todos with that id (lines 291-305)
TaskUpdateResult(snaps, task_id, new_status, mi) ==
    IF snaps # <<>> /\ task_id # "" /\ new_status # ""
    THEN LET old == Last(snaps).todos
             updated == [i \in 1..Len(old) |->
                            IF old[i].id = task_id
                            THEN [old[i] EXCEPT !.status = new_status]
                            ELSE old[i]]
         IN Append(snaps, Snapshot(mi, updated))
    ELSE snaps

ToolTaskUpdate ==
    /\ cur_type = "assistant"
    /\ Len(todo_snapshots) < MaxSnapshots
    /\ \E task_id \in TaskIds \cup {""}, new_status \in Statuses \cup {""} :
          /\ todo_snapshots' =
                 TaskUpdateResult(todo_snapshots, task_id, new_status, message_index)
          /\ event' = [tool |-> "TaskUpdate", taskId |-> task_id, status |-> new_status]
    /\ UNCHANGED <<message_index, cur_type, cacheVars, searchVars, readVars, stemVars>>

NextExtract ==
    \/ OtherEntry
    \/ UserEntry
    \/ AssistantEntry
    \/ ToolTodoWrite
    \/ ToolTaskCreate
    \/ ToolTaskUpdate




(***************************************************************************)
(* cache.py.  The log files live at <project>/<session id>.jsonl; two      *)
(* projects may hold a file with the same base name.  A file is "ok",      *)
(* "unreadable" (open() or reading it raises inside parse_jsonl_file) or   *)
(* "raises" (its last snapshot makes extract_conversation_data raise).     *)
(***************************************************************************)
Paths == {"pA/s1", "pA/s2", "pB/s1"}

\* os.path.basename(file_path).replace('.jsonl', '')   (cache.py lines 85-86)
SessionId(path) == IF path = "pA/s2" THEN "s2" ELSE "s1"

NoFile == [kind |-> "none", mtime |-> 0]

FileStates ==
    {NoFile} \cup [kind : {"ok", "unreadable", "raises"}, mtime : 1..MaxMtime]

EmptyMap == [sid \in {} |-> NoFile]

\* the record extract_conversation_data returns (extraction.py lines 364-380),
\* with the two keys index_files adds (cache.py lines 99-100).  A file that
\* cannot be read parses to no entries (extraction.py lines 25-27), and the
\* record is that of an empty log.
ExtractedRecord(path, file) ==
    [term_counts |-> "stems", episodes |-> "episodes",
     message_count |-> IF file.kind = "unreadable" THEN 0 ELSE 1,
     mtime |-> file.mtime, file_path |-> path]

CurrentKeys == {"term_counts", "episodes", "message_count", "mtime", "file_path"}

\* records written by earlier formats of the index
LegacyV1(path, m) ==
    [user_term_counts |-> "stems", chapters |-> "episodes", message_count |-> 1,
     mtime |-> m, file_path |-> path]

LegacyV2(path, m) ==
    [term_counts |-> "stems", chapters |-> "episodes", message_count |-> 1,
     mtime |-> m, file_path |-> path]

\* is_entry_stale checking the v2 key only
is_entry_stale_v2(entry) == "term_counts" \notin DOMAIN entry

\* cache.py is_entry_stale (lines 23-34)
is_entry_stale(entry) ==
    \/ "term_counts" \notin DOMAIN entry
    \/ "episodes" \notin DOMAIN entry

\* needs_reparse with <= in place of <
needs_reparse_le(c, sid, current_mtime) ==
    IF sid \notin DOMAIN c THEN TRUE
    ELSE IF c[sid].mtime <= current_mtime THEN TRUE
    ELSE is_entry_stale(c[sid])

\* cache.py index_files, lines 88-95
needs_reparse(c, sid, current_mtime) ==
    IF sid \notin DOMAIN c THEN TRUE
    ELSE IF c[sid].mtime < current_mtime THEN TRUE
    ELSE is_entry_stale(c[sid])

\* Put keeping no other key
PutAlone(c, sid, rec) == [k \in {sid} |-> rec]

Put(c, sid, rec) == [k \in DOMAIN c \cup {sid} |-> IF k = sid THEN rec ELSE c[k]]

EntryOf(c, sid) == IF sid \in DOMAIN c THEN c[sid] ELSE NoFile

\* IndexOne storing a record for a file on which the extraction raises
IndexOneStoring(st, path, shape) ==
    LET file == files[path]
        sid == SessionId(path)
        prev == EntryOf(st.cache, sid)
        entry(reparsed, stored, next) ==
            [path |-> path, kind |-> file.kind, mtime |-> file.mtime,
             prev |-> prev, next |-> next, reparsed |-> reparsed, stored |-> stored]
    IN  IF shape = "nonmap"
        THEN [st EXCEPT !.log = Put(@, path, entry(FALSE, FALSE, prev))]
        ELSE IF ~needs_reparse(st.cache, sid, file.mtime)
        THEN [st EXCEPT !.log = Put(@, path, entry(FALSE, FALSE, prev))]
        ELSE LET data == ExtractedRecord(path, file) IN
             [cache |-> Put(st.cache, sid, data),
              modified |-> TRUE,
              log |-> Put(st.log, path, entry(TRUE, TRUE, data))]

\* One iteration of the loop of index_files (cache.py lines 82-106) on the
\* state st = [cache, modified, log].  The log keeps, per file processed,
\* the entry of its session id before and after, and whether
\* extract_conversation_data was called and its record stored.
IndexOne(st, path, shape) ==
    LET file == files[path]
        sid == SessionId(path)
        prev == EntryOf(st.cache, sid)
        entry(reparsed, stored, next) ==
            [path |-> path, kind |-> file.kind, mtime |-> file.mtime,
             prev |-> prev, next |-> next, reparsed |-> reparsed, stored |-> stored]
    IN  IF shape = "nonmap"
        \* `in` or the item assignment raises TypeError, caught at line 104
        THEN [st EXCEPT !.log = Put(@, path, entry(FALSE, FALSE, prev))]
        ELSE IF ~needs_reparse(st.cache, sid, file.mtime)
        THEN [st EXCEPT !.log = Put(@, path, entry(FALSE, FALSE, prev))]
        ELSE IF file.kind = "raises"
        \* extract_conversation_data raises, caught at line 104
        THEN [st EXCEPT !.log = Put(@, path, entry(TRUE, FALSE, prev))]
        ELSE LET data == ExtractedRecord(path, file) IN
             [cache |-> Put(st.cache, sid, data),
              modified |-> TRUE,
              log |-> Put(st.log, path, entry(TRUE, TRUE, data))]

RECURSIVE IndexFold(_, _, _, _)
IndexFold(st, order, i, shape) ==
    IF i > Len(order) THEN st
    ELSE IndexFold(IndexOne(st, order[i], shape), order, i + 1, shape)

\* glob.glob: the files that exist, in an order the file system chooses
ExistingPaths == {p \in Paths : files[p].kind # "none"}

Orders(S) == {o \in [1..Cardinality(S) -> S] : \A i, j \in 1..Cardinality(S) : o[i] = o[j] => i = j}

NoScan == [id |-> "none"]

\* h records an ensure_cache_fresh call that returned
Returned(h) == IF h.id = "scan" THEN ~h.raised ELSE FALSE

\* the cache files a process may find at start
InitialMaps ==
    {[sid \in {"s1"} |-> LegacyV1("pA/s1", 1)],
     [sid \in {"s1"} |-> LegacyV2("pA/s1", 1)],
     [sid \in {"s2"} |-> ExtractedRecord("pA/s2", [kind |-> "ok", mtime |-> 1])]}

CorruptKinds == {"truncated", "badbytes", "nonmap"}

InitCache ==
    /\ files = [p \in Paths |-> NoFile]
    /\ \/ diskCache \in [kind : {"absent"} \cup CorruptKinds, map : {EmptyMap}]
       \/ diskCache \in [kind : {"map"}, map : InitialMaps]
    /\ cache = EmptyMap
    /\ cacheShape = "map"
    /\ cache_loaded = FALSE
    /\ scan = NoScan

\* cache.py load_cache_from_disk (lines 37-54): [cache, shape, raised].
\* json.load raises UnicodeDecodeError on bytes that are not UTF-8, which is
\* neither JSONDecodeError nor IOError; a JSON value that is no object is
\* assigned as it is.
LoadResult ==
    IF cache_loaded THEN [cache |-> cache, shape |-> cacheShape, raised |-> FALSE]
    ELSE CASE diskCache.kind = "absent" ->
                 [cache |-> cache, shape |-> cacheShape, raised |-> FALSE]
           [] diskCache.kind = "map" ->
                 [cache |-> diskCache.map, shape |-> "map", raised |-> FALSE]
           [] diskCache.kind = "truncated" ->
                 [cache |-> EmptyMap, shape |-> "map", raised |-> FALSE]
           [] diskCache.kind = "nonmap" ->
                 [cache |-> EmptyMap, shape |-> "nonmap", raised |-> FALSE]
           [] OTHER ->
                 [cache |-> cache, shape |-> cacheShape, raised |-> TRUE]

\* cache.py ensure_cache_fresh (lines 112-117): load_cache_from_disk, then
\* index_files with its one save_cache_to_disk after the loop (lines 108-109)
EnsureCacheFresh ==
    \E order \in Orders(ExistingPaths) :
        LET ld == LoadResult
            st == IndexFold([cache |-> ld.cache, modified |-> FALSE, log |-> EmptyMap],
                            order, 1, ld.shape)
        IN  /\ cache_loaded' = TRUE
            /\ UNCHANGED <<files, extractVars, searchVars, readVars, stemVars>>
            /\ IF ld.raised
               THEN /\ UNCHANGED <<cache, cacheShape, diskCache>>
                    /\ scan' = [id |-> "scan", raised |-> TRUE, loaded |-> ~cache_loaded,
                                found |-> diskCache.kind, follows |-> Returned(scan),
                                shape |-> cacheShape,
                                before |-> cache, after |-> cache, log |-> EmptyMap,
                                writes |-> 0]
               ELSE /\ cache' = st.cache
                    /\ cacheShape' = ld.shape
                    /\ diskCache' = IF st.modified
                                    THEN [kind |-> "map", map |-> st.cache]
                                    ELSE diskCache
                    /\ scan' = [id |-> "scan", raised |-> FALSE, loaded |-> ~cache_loaded,
                                found |-> diskCache.kind, follows |-> Returned(scan),
                                shape |-> ld.shape,
                                before |-> ld.cache, after |-> st.cache, log |-> st.log,
                                writes |-> IF st.modified THEN 1 ELSE 0]

\* a new process: the module globals of cache.py start over (lines 19-20)
NewProcess ==
    /\ cache_loaded
    /\ cache' = EmptyMap
    /\ cacheShape' = "map"
    /\ cache_loaded' = FALSE
    /\ scan' = NoScan
    /\ UNCHANGED <<files, diskCache, extractVars, searchVars, readVars, stemVars>>

\* the environment writes, touches or replaces a log file
WriteFile ==
    \E p \in Paths, f \in FileStates \ {NoFile} :
        /\ f # files[p]
        /\ p # "pA/s1" => f.kind = "ok"
        /\ files' = [files EXCEPT ![p] = f]
        /\ scan' = NoScan
        /\ UNCHANGED <<diskCache, cache, cacheShape, cache_loaded, extractVars, searchVars, readVars, stemVars>>

\* the environment deletes a log file
DeleteFile ==
    \E p \in Paths :
        /\ files[p] # NoFile
        /\ files' = [files EXCEPT ![p] = NoFile]
        /\ scan' = NoScan
        /\ UNCHANGED <<diskCache, cache, cacheShape, cache_loaded, extractVars, searchVars, readVars, stemVars>>

\* the cache file is damaged (a crash during the whole-file rewrite, a
\* foreign writer)
CorruptCacheFile ==
    \E k \in CorruptKinds :
        /\ diskCache.kind = "map"
        /\ diskCache' = [kind |-> k, map |-> EmptyMap]
        /\ scan' = NoScan
        /\ UNCHANGED <<files, cache, cacheShape, cache_loaded, extractVars, searchVars, readVars, stemVars>>

NextCache ==
    \/ EnsureCacheFresh
    \/ NewProcess
    \/ WriteFile
    \/ DeleteFile
    \/ CorruptCacheFile

(***************************************************************************)
(* stemmer.py.  A word or a text is a sequence of one-character strings.   *)
(***************************************************************************)
EndsWith(w, suf) ==
    /\ Len(w) >= Len(suf)
    /\ SubSeq(w, Len(w) - Len(suf) + 1, Len(w)) = suf

\* word[:-n]
DropLast(w, n) == SubSeq(w, 1, Len(w) - n)

Vowels == {"a", "e", "i", "o", "u"}

\* PorterStemmer._is_consonant (lines 17-22); positions count from 1
RECURSIVE IsConsonant(_, _)
IsConsonant(w, i) ==
    IF w[i] \in Vowels THEN FALSE
    ELSE IF w[i] = "y" THEN (IF i = 1 THEN TRUE ELSE ~IsConsonant(w, i - 1))
    ELSE TRUE

\* PorterStemmer._measure (lines 24-42): after the leading consonants, one
\* is counted each time a run of vowels is followed by a consonant
Measure(w) ==
    Cardinality({i \in 1..(Len(w) - 1) : ~IsConsonant(w, i) /\ IsConsonant(w, i + 1)})

\* PorterStemmer._has_vowel (lines 44-45)
HasVowel(w) == \E i \in 1..Len(w) : ~IsConsonant(w, i)

\* PorterStemmer._ends_double_consonant (lines 47-48)
EndsDoubleConsonant(w) ==
    /\ Len(w) >= 2
    /\ w[Len(w)] = w[Len(w) - 1]
    /\ IsConsonant(w, Len(w))

\* PorterStemmer._ends_cvc (lines 50-56)
EndsCVC(w) ==
    /\ Len(w) >= 3
    /\ IsConsonant(w, Len(w) - 2)
    /\ ~IsConsonant(w, Len(w) - 1)
    /\ IsConsonant(w, Len(w))
    /\ w[Len(w)] \notin {"w", "x", "y"}

\* Step 1a (lines 66-73)
Step1a(w) ==
    IF EndsWith(w, <<"s", "s", "e", "s">>) THEN DropLast(w, 2)
    ELSE IF EndsWith(w, <<"i", "e", "s">>) THEN DropLast(w, 2)
    ELSE IF EndsWith(w, <<"s", "s">>) THEN w
    ELSE IF EndsWith(w, <<"s">>) THEN DropLast(w, 1)
    ELSE w

\* the cleanup after removing ed or ing (lines 83-88 and 93-98)
Step1bCleanup(w) ==
    IF EndsWith(w, <<"a", "t">>) \/ EndsWith(w, <<"b", "l">>) \/ EndsWith(w, <<"i", "z">>)
    THEN Append(w, "e")
    ELSE IF EndsDoubleConsonant(w) /\ w[Len(w)] \notin {"l", "s", "z"}
    THEN DropLast(w, 1)
    ELSE IF Measure(w) = 1 /\ EndsCVC(w)
    THEN Append(w, "e")
    ELSE w

\* Step 1b (lines 76-98)
Step1b(w) ==
    IF EndsWith(w, <<"e", "e", "d">>)
    THEN (IF Measure(DropLast(w, 3)) > 0 THEN DropLast(w, 1) ELSE w)
    ELSE IF EndsWith(w, <<"e", "d">>)
    THEN (IF HasVowel(DropLast(w, 2)) THEN Step1bCleanup(DropLast(w, 2)) ELSE w)
    ELSE IF EndsWith(w, <<"i", "n", "g">>)
    THEN (IF HasVowel(DropLast(w, 3)) THEN Step1bCleanup(DropLast(w, 3)) ELSE w)
    ELSE w

\* Step 1c (lines 101-102)
Step1c(w) ==
    IF EndsWith(w, <<"y">>) /\ HasVowel(DropLast(w, 1))
    THEN Append(DropLast(w, 1), "i")
    ELSE w

\* step2_suffixes (lines 105-112)
Step2Suffixes ==
    <<<<<<"a", "t", "i", "o", "n", "a", "l">>, <<"a", "t", "e">>>>,
      <<<<"t", "i", "o", "n", "a", "l">>, <<"t", "i", "o", "n">>>>,
      <<<<"e", "n", "c", "i">>, <<"e", "n", "c", "e">>>>,
      <<<<"a", "n", "c", "i">>, <<"a", "n", "c", "e">>>>,
      <<<<"i", "z", "e", "r">>, <<"i", "z", "e">>>>,
      <<<<"i", "s", "a", "t", "i", "o", "n">>, <<"i", "z", "e">>>>,
      <<<<"i", "z", "a", "t", "i", "o", "n">>, <<"i", "z", "e">>>>,
      <<<<"a", "t", "i", "o", "n">>, <<"a", "t", "e">>>>,
      <<<<"a", "t", "o", "r">>, <<"a", "t", "e">>>>,
      <<<<"a", "l", "i", "s", "m">>, <<"a", "l">>>>,
      <<<<"i", "v", "e", "n", "e", "s", "s">>, <<"i", "v", "e">>>>,
      <<<<"f", "u", "l", "n", "e", "s", "s">>, <<"f", "u", "l">>>>,
      <<<<"o", "u", "s", "n", "e", "s", "s">>, <<"o", "u", "s">>>>,
      <<<<"a", "l", "i", "t", "i">>, <<"a", "l">>>>,
      <<<<"i", "v", "i", "t", "i">>, <<"i", "v", "e">>>>,
      <<<<"b", "i", "l", "i", "t", "i">>, <<"b", "l", "e">>>>>>

\* step3_suffixes (lines 121-124)
Step3Suffixes ==
    <<<<<<"i", "c", "a", "t", "e">>, <<"i", "c">>>>,
      <<<<"a", "t", "i", "v", "e">>, <<>>>>,
      <<<<"a", "l", "i", "z", "e">>, <<"a", "l">>>>,
      <<<<"i", "c", "i", "t", "i">>, <<"i", "c">>>>,
      <<<<"i", "c", "a", "l">>, <<"i", "c">>>>,
      <<<<"f", "u", "l">>, <<>>>>,
      <<<<"n", "e", "s", "s">>, <<>>>>>>

\* step4_suffixes (lines 133-135)
Step4Suffixes ==
    <<<<"a", "l">>,
      <<"a", "n", "c", "e">>,
      <<"e", "n", "c", "e">>,
      <<"e", "r">>,
      <<"i", "c">>,
      <<"a", "b", "l", "e">>,
      <<"i", "b", "l", "e">>,
      <<"a", "n", "t">>,
      <<"e", "m", "e", "n", "t">>,
      <<"m", "e", "n", "t">>,
      <<"e", "n", "t">>,
      <<"i", "o", "n">>,
      <<"o", "u">>,
      <<"i", "s", "m">>,
      <<"a", "t", "e">>,
      <<"i", "t", "i">>,
      <<"o", "u", "s">>,
      <<"i", "v", "e">>,
      <<"i", "z", "e">>>>

\* the loops of steps 2 and 3 (lines 113-118, 125-130): the first suffix of
\* the list the word ends with decides, and is replaced when the measure of
\* what precedes it is > 0
RECURSIVE ReplaceFirstSuffix(_, _, _)
ReplaceFirstSuffix(w, rules, k) ==
    IF k > Len(rules) THEN w
    ELSE IF EndsWith(w, rules[k][1])
    THEN LET stem == DropLast(w, Len(rules[k][1])) IN
         IF Measure(stem) > 0 THEN stem \o rules[k][2] ELSE w
    ELSE ReplaceFirstSuffix(w, rules, k + 1)

\* Step 4 (lines 136-144)
RECURSIVE Step4From(_, _)
Step4From(w, k) ==
    IF k > Len(Step4Suffixes) THEN w
    ELSE IF EndsWith(w, Step4Suffixes[k])
    THEN LET stem == DropLast(w, Len(Step4Suffixes[k])) IN
         IF Measure(stem) > 1
         THEN (IF Step4Suffixes[k] = <<"i", "o", "n">>
               THEN (IF stem[Len(stem)] \in {"s", "t"} THEN stem ELSE w)
               ELSE stem)
         ELSE w
    ELSE Step4From(w, k + 1)

\* Step 5a (lines 147-150)
Step5a(w) ==
    IF EndsWith(w, <<"e">>)
    THEN LET stem == DropLast(w, 1) IN
         IF Measure(stem) > 1 \/ (Measure(stem) = 1 /\ ~EndsCVC(stem)) THEN stem ELSE w
    ELSE w

\* Step 5b (lines 153-154)
Step5b(w) ==
    IF Measure(w) > 1 /\ EndsDoubleConsonant(w) /\ EndsWith(w, <<"l">>)
    THEN DropLast(w, 1)
    ELSE w

\* PorterStemmer.stem (lines 58-156) on a lowercase word
Stem(word) ==
    IF Len(word) <= 2 THEN word
    ELSE Step5b(Step5a(Step4From(
             ReplaceFirstSuffix(
                 ReplaceFirstSuffix(Step1c(Step1b(Step1a(word))), Step2Suffixes, 1),
                 Step3Suffixes, 1),
             1)))

(***************************************************************************)
(* Text operations of Python used by search.py and stemmer.py.             *)
(***************************************************************************)
LowerLetters ==
    <<"a", "b", "c", "d", "e", "f", "g", "h", "i", "j", "k", "l", "m",
      "n", "o", "p", "q", "r", "s", "t", "u", "v", "w", "x", "y", "z">>

UpperLetters ==
    <<"A", "B", "C", "D", "E", "F", "G", "H", "I", "J", "K", "L", "M",
      "N", "O", "P", "Q", "R", "S", "T", "U", "V", "W", "X", "Y", "Z">>

\* the characters \w of a regular expression matches, within ASCII
WordChars ==
    Range(LowerLetters) \cup Range(UpperLetters)
        \cup {"0", "1", "2", "3", "4", "5", "6", "7", "8", "9", "_"}

\* the characters str.split() splits at: here the space alone
Whitespace == {" "}

\* str.lower() on one character
LowerOf ==
    [c \in Range(UpperLetters) |->
        LowerLetters[CHOOSE i \in 1..Len(UpperLetters) : UpperLetters[i] = c]]

LowerChar(c) == IF c \in DOMAIN LowerOf THEN LowerOf[c] ELSE c

\* str.lower()
RECURSIVE Lower(_)
Lower(text) ==
    IF text = <<>> THEN <<>>
    ELSE <<LowerChar(Head(text))>> \o Lower(Tail(text))

\* ' '.join(list)
RECURSIVE Join(_)
Join(list) ==
    IF list = <<>> THEN <<>>
    ELSE IF Len(list) = 1 THEN list[1]
    ELSE list[1] \o <<" ">> \o Join(Tail(list))

\* sub in text, for two strings
Contains(sub, text) ==
    \E i \in 0..(Len(text) - Len(sub)) : SubSeq(text, i + 1, i + Len(sub)) = sub

\* str.split(): the maximal runs of characters that are not whitespace
RECURSIVE SplitFrom(_, _, _, _)
SplitFrom(text, i, cur, acc) ==
    IF i > Len(text) THEN (IF cur = <<>> THEN acc ELSE Append(acc, cur))
    ELSE IF text[i] \in Whitespace
    THEN SplitFrom(text, i + 1, <<>>, IF cur = <<>> THEN acc ELSE Append(acc, cur))
    ELSE SplitFrom(text, i + 1, Append(cur, text[i]), acc)

Split(text) == SplitFrom(text, 1, <<>>, <<>>)

\* the maximal runs of \w characters
RECURSIVE WordRunsFrom(_, _, _, _)
WordRunsFrom(text, i, cur, acc) ==
    IF i > Len(text) THEN (IF cur = <<>> THEN acc ELSE Append(acc, cur))
    ELSE IF text[i] \notin WordChars
    THEN WordRunsFrom(text, i + 1, <<>>, IF cur = <<>> THEN acc ELSE Append(acc, cur))
    ELSE WordRunsFrom(text, i + 1, Append(cur, text[i]), acc)

\* re.findall(r'\b[a-zA-Z]+\b', text): a run of letters is found when a word
\* boundary is on both sides of it, that is when it is a whole run of \w
FindWords(text) ==
    {w \in Range(WordRunsFrom(text, 1, <<>>, <<>>)) :
        \A i \in 1..Len(w) : w[i] \in Range(LowerLetters) \cup Range(UpperLetters)}

\* stemmer.stem_text (lines 163-166)
stem_text(text) ==
    {Stem(w) : w \in {x \in FindWords(Lower(text)) : Len(x) > 2}}

\* stemmer.stem_query (lines 176-178)
stem_query(query) == stem_text(query)

(***************************************************************************)
(* commands/search.py.  Time is counted in days.  A cached record is held  *)
(* with the fields search reads: project, timestamp (0 when the record has *)
(* none), mtime, work_items, files_touched, commands_run and the keys of   *)
(* term_counts.  The display fields of a result (summary, firstMatch,      *)
(* when, turns) are left out.                                              *)
(***************************************************************************)
MaxRecords == 2         \* cached records
MaxQueryTerms == 2      \* whitespace-separated terms of a query
MaxDay == 9             \* the day of the search; timestamps are days 1..MaxDay

SCORE_WORK_ITEMS == 3

SCORE_NOTES == 3

SCORE_FILES == 2

SCORE_COMMANDS == 1

SCORE_TEXT == 1

SCORE_MULTI_TERM_BONUS == 2

NoTimestamp == 0

\* formatters.recency_boost (lines 54-69)
recency_boost(timestamp, today) ==
    IF timestamp = NoTimestamp THEN 0
    ELSE IF today - timestamp < 1 THEN 2
    ELSE IF today - timestamp < 7 THEN 1
    ELSE 0

\* the loop of one category (lines 93-98, 105-110, 116-121, 127-132): the
\* query terms that are substrings of the lowercased, joined list
TermsInAll(query_terms, list) ==
    LET text == Lower(Join(list)) IN
    IF \A t \in Range(query_terms) : Contains(t, text)
    THEN Range(query_terms)
    ELSE {}

TermsIn(query_terms, list) ==
    LET text == Lower(Join(list)) IN
    {t \in Range(query_terms) : Contains(t, text)}

\* notes.get_notes_for_session (lines 42-45)
get_notes_for_session(session_id) ==
    IF session_id \in DOMAIN notes_cache THEN notes_cache[session_id] ELSE <<>>

\* the stems of the query that are keys of term_counts (lines 140-142)
StemsInText(query_stems, data) == {stem \in query_stems : stem \in data.term_counts}

\* the query terms a matched stem came from (lines 144-146)
TermsOfText(query_terms, matched_stems) ==
    {t \in Range(query_terms) : \E stem \in matched_stems : stem \in stem_query(t)}

\* lines 87-149: what each category found for one record
Match(session_id, data, query_terms, query_stems) ==
    LET matched_stems == StemsInText(query_stems, data) IN
    [work     |-> TermsIn(query_terms, data.work_items),
     notes    |-> TermsIn(query_terms, get_notes_for_session(session_id)),
     files    |-> TermsIn(query_terms, data.files_touched),
     commands |-> TermsIn(query_terms, data.commands_run),
     text     |-> matched_stems # {},
     textTerms |-> TermsOfText(query_terms, matched_stems)]

\* match_source (lines 101, 113, 124, 135, 149)
MatchSource(m) ==
    (IF m.work # {} THEN <<"todos">> ELSE <<>>)
    \o (IF m.notes # {} THEN <<"notes">> ELSE <<>>)
    \o (IF m.files # {} THEN <<"files">> ELSE <<>>)
    \o (IF m.commands # {} THEN <<"commands">> ELSE <<>>)
    \o (IF m.text THEN <<"text">> ELSE <<>>)

CategoryScorePerTerm(m) ==
    Cardinality(m.work) * SCORE_WORK_ITEMS
    + Cardinality(m.notes) * SCORE_NOTES
    + Cardinality(m.files) * SCORE_FILES
    + Cardinality(m.commands) * SCORE_COMMANDS
    + (IF m.text THEN SCORE_TEXT ELSE 0)

\* score before line 151: each category counts once
CategoryScore(m) ==
    (IF m.work # {} THEN SCORE_WORK_ITEMS ELSE 0)
    + (IF m.notes # {} THEN SCORE_NOTES ELSE 0)
    + (IF m.files # {} THEN SCORE_FILES ELSE 0)
    + (IF m.commands # {} THEN SCORE_COMMANDS ELSE 0)
    + (IF m.text THEN SCORE_TEXT ELSE 0)

\* matched_terms
MatchedTerms(m) == m.work \cup m.notes \cup m.files \cup m.commands \cup m.textTerms

\* lines 151-152: if score == 0: continue
IsExcludedNever(score) == FALSE

IsExcluded(score) == score = 0

\* lines 155-156
MultiTermBonus(matched_terms) ==
    IF Cardinality(matched_terms) > 1
    THEN (Cardinality(matched_terms) - 1) * SCORE_MULTI_TERM_BONUS
    ELSE 0

\* lines 72-73
QueryTerms(query) == Split(Lower(query))

\* score after line 159
Score(m, timestamp, today) ==
    CategoryScore(m) + MultiTermBonus(MatchedTerms(m)) + recency_boost(timestamp, today)

\* lines 77-85: the project and timestamp filters; no bound is written 0
PassesFilters(data, project, after, before) ==
    /\ ~(project # <<>> /\ ~Contains(project, data.project))
    /\ ~(after # NoTimestamp /\ data.timestamp # NoTimestamp /\ data.timestamp < after)
    /\ ~(before # NoTimestamp /\ data.timestamp # NoTimestamp /\ data.timestamp > before)

\* the loop over cache.items() (lines 77-207)
RECURSIVE Collect(_, _, _, _, _, _, _, _)
Collect(items, k, query_terms, query_stems, project, after, before, today) ==
    IF k > Len(items) THEN <<>>
    ELSE LET session_id == items[k].sessionId
             data == items[k].data
             m == Match(session_id, data, query_terms, query_stems)
             rest == Collect(items, k + 1, query_terms, query_stems,
                             project, after, before, today)
         IN  IF ~PassesFilters(data, project, after, before) THEN rest
             ELSE IF IsExcluded(CategoryScore(m)) THEN rest
             ELSE <<[sessionId |-> session_id,
                     score |-> Score(m, data.timestamp, today),
                     matchSource |-> MatchSource(m),
                     ts |-> data.mtime]>> \o rest

KeyGreaterByScore(a, b, recent) ==
    IF recent THEN FALSE ELSE a.score > b.score

\* the sort keys of lines 209-212, compared as reverse=True needs them
KeyGreater(a, b, recent) ==
    IF recent THEN a.ts > b.ts
    ELSE a.score > b.score \/ (a.score = b.score /\ a.ts > b.ts)

\* list.sort(key=..., reverse=True) is stable: a result goes behind the
\* results before it in the list whose key is not smaller
InsertResult(sorted, x, recent) ==
    LET smaller == {i \in 1..Len(sorted) : KeyGreater(x, sorted[i], recent)}
        at == IF smaller = {} THEN Len(sorted) + 1
              ELSE CHOOSE i \in smaller : \A j \in smaller : i <= j
    IN  SubSeq(sorted, 1, at - 1) \o <<x>> \o SubSeq(sorted, at, Len(sorted))

RECURSIVE SortResults(_, _)
SortResults(results, recent) ==
    IF results = <<>> THEN <<>>
    ELSE InsertResult(SortResults(SubSeq(results, 1, Len(results) - 1), recent),
                      results[Len(results)], recent)

SliceInclusive(results, skip, limit) ==
    SubSeq(results, skip + 1,
           IF skip + limit + 1 < Len(results) THEN skip + limit + 1 ELSE Len(results))

\* results[skip:skip + limit] for skip >= 0 and limit >= 0 (line 218)
Slice(results, skip, limit) ==
    SubSeq(results, skip + 1, IF skip + limit < Len(results) THEN skip + limit ELSE Len(results))

\* the records of the cache, by what search reads of them.  timestamp is
\* the day of the first user message, mtime the day the log file was last
\* written: the last two records were started earlier and written later
\* than the second one
RecordPool ==
    {[project |-> <<"p", "a">>, timestamp |-> MaxDay, mtime |-> MaxDay,
      work_items |-> <<<<"F", "i", "x", " ", "B", "u", "g">>>>, files_touched |-> <<>>, commands_run |-> <<>>,
      term_counts |-> {<<"f", "i", "x">>, <<"b", "u", "g">>}],
     [project |-> <<"p", "a">>, timestamp |-> MaxDay - 3, mtime |-> MaxDay - 3,
      work_items |-> <<>>, files_touched |-> <<<<"s", "r", "c", "/", "b", "u", "g", "f", "i", "x", ".", "p", "y">>>>, commands_run |-> <<>>,
      term_counts |-> {<<"f", "i", "x">>}],
     [project |-> <<"p", "a">>, timestamp |-> MaxDay, mtime |-> MaxDay,
      work_items |-> <<<<"d", "o", "c", "s">>>>, files_touched |-> <<>>, commands_run |-> <<>>,
      term_counts |-> {<<"d", "o", "c">>}],
     [project |-> <<"p", "b">>, timestamp |-> NoTimestamp, mtime |-> MaxDay - 6,
      work_items |-> <<>>, files_touched |-> <<>>, commands_run |-> <<<<"g", "i", "t", " ", "l", "o", "g">>, <<"f", "i", "x", "-", "i", "t">>>>,
      term_counts |-> {}],
     [project |-> <<"p", "b">>, timestamp |-> MaxDay - 8, mtime |-> MaxDay - 1,
      work_items |-> <<>>, files_touched |-> <<>>, commands_run |-> <<>>,
      term_counts |-> {<<"f", "i", "x">>}],
     [project |-> <<"p", "a">>, timestamp |-> MaxDay - 5, mtime |-> MaxDay - 1,
      work_items |-> <<>>, files_touched |-> <<<<"s", "r", "c", "/", "b", "u", "g", "f", "i", "x", ".", "p", "y">>>>, commands_run |-> <<>>,
      term_counts |-> {<<"f", "i", "x">>}]}

SessionIds == <<"s1", "s2", "s3">>

\* the caches of at most MaxRecords records
Caches ==
    UNION {[1..n -> RecordPool] : n \in 0..MaxRecords}

\* the terms queries are made of, and the queries
QueryTermPool == {<<"B", "u", "g">>, <<"f", "i", "x">>, <<"f", "i", "x", "i", "n", "g">>}

TermLists == UNION {[1..n -> QueryTermPool] : n \in 1..MaxQueryTerms}

Queries == {Join(terms) : terms \in TermLists}

\* lines 72-73 for every query
TermsOfQuery == [q \in Queries |-> QueryTerms(q)]

StemsOfQuery == [q \in Queries |-> stem_query(q)]

NotesPool == {<<>>, [s \in {"s1"} |-> <<<<"B", "u", "g", " ", "i", "n", " ", "p", "a", "r", "s", "e", "r">>>>]}

NoSearch == [id |-> "none"]

InitSearch ==
    /\ \E c \in Caches :
           conversations = [k \in 1..Len(c) |-> [sessionId |-> SessionIds[k], data |-> c[k]]]
    /\ notes_cache \in NotesPool
    /\ now = MaxDay
    /\ searchOut = NoSearch

\* search (lines 57-229), after ensure_cache_fresh and load_notes; it is the
\* one command of a run of the program
Search ==
    /\ searchOut = NoSearch
    /\ \E query \in Queries, project \in {<<>>, <<"b">>},
          after \in {NoTimestamp, MaxDay - 3}, before \in {NoTimestamp, MaxDay - 3},
          recent \in BOOLEAN :
        \E results \in {SortResults(Collect(conversations, 1, TermsOfQuery[query],
                                            StemsOfQuery[query], project, after,
                                            before, now),
                                    recent)} :
            \E limit \in 0..MaxRecords, skip \in 0..MaxRecords :
                searchOut' = [id |-> "search", query |-> query, limit |-> limit,
                              skip |-> skip, project |-> project, after |-> after,
                              before |-> before, recent |-> recent,
                              matches |-> results,
                              results |-> Slice(results, skip, limit),
                              totalMatches |-> Len(results)]
    /\ UNCHANGED <<conversations, notes_cache, now, extractVars, cacheVars, readVars, stemVars>>

NextSearch == Search

(***************************************************************************)
(* commands/shared.py, commands/read.py and commands/listing.py episodes.  *)
(* A cached session is held with its key, the day of its timestamp (0     *)
(* when it has none), the entries of its log file and whether that file    *)
(* is on disk.  A session id is a sequence of one-character strings.       *)
(***************************************************************************)
MaxSessions == 12       \* cached sessions
MaxLogLen == 3          \* entries of a log file that is read

\* the cut [:10] of the candidate list
MatchCap == 10

\* str.startswith
StartsWith(s, p) == Len(p) <= Len(s) /\ SubSeq(s, 1, Len(p)) = p

\* the keys of the cache, in dict order
KeysOf(sessions_) == [k \in 1..Len(sessions_) |-> sessions_[k].sessionId]

DataOf(sessions_, sid) ==
    sessions_[CHOOSE k \in 1..Len(sessions_) : sessions_[k].sessionId = sid]

\* resolve_session_id without the exact match of lines 16-18
resolve_prefix_only(partial_id, sessions_) ==
    LET matches == SelectSeq(KeysOf(sessions_),
                             LAMBDA sid : StartsWith(sid, partial_id))
    IN  IF Len(matches) = 1
        THEN [full_id |-> matches[1], kind |-> "ok", matches |-> <<>>]
        ELSE IF Len(matches) > 1
        THEN [full_id |-> <<>>, kind |-> "matches", matches |-> matches]
        ELSE [full_id |-> <<>>, kind |-> "error", matches |-> <<>>]

\* shared.resolve_session_id (lines 6-29).  full_id is <<>> where the code
\* returns None; kind says what the second component is
resolve_session_id(partial_id, sessions_) ==
    IF \E k \in 1..Len(sessions_) : sessions_[k].sessionId = partial_id
    THEN [full_id |-> partial_id, kind |-> "ok", matches |-> <<>>]
    ELSE LET matches == SelectSeq(KeysOf(sessions_),
                                  LAMBDA sid : StartsWith(sid, partial_id))
         IN  IF Len(matches) = 1
             THEN [full_id |-> matches[1], kind |-> "ok", matches |-> <<>>]
             ELSE IF Len(matches) > 1
             THEN [full_id |-> <<>>, kind |-> "matches", matches |-> matches]
             ELSE [full_id |-> <<>>, kind |-> "error", matches |-> <<>>]

\* sorted(matches, key=timestamp, reverse=True) is stable: an id goes
\* behind the ids before it in the list whose timestamp is not smaller
InsertByTimestamp(sorted, sid, sessions_) ==
    LET smaller == {i \in 1..Len(sorted) :
                       DataOf(sessions_, sid).timestamp
                           > DataOf(sessions_, sorted[i]).timestamp}
        at == IF smaller = {} THEN Len(sorted) + 1
              ELSE CHOOSE i \in smaller : \A j \in smaller : i <= j
    IN  SubSeq(sorted, 1, at - 1) \o <<sid>> \o SubSeq(sorted, at, Len(sorted))

RECURSIVE SortByTimestamp(_, _)
SortByTimestamp(ids, sessions_) ==
    IF ids = <<>> THEN <<>>
    ELSE InsertByTimestamp(SortByTimestamp(SubSeq(ids, 1, Len(ids) - 1), sessions_),
                           ids[Len(ids)], sessions_)

\* the candidates shown without the cut
CandidatesUncut(matches, sessions_) == SortByTimestamp(matches, sessions_)

\* read.py lines 64-68, listing.py lines 112-116
Candidates(matches, sessions_) ==
    SubSeq(SortByTimestamp(matches, sessions_), 1,
           IF Len(matches) < MatchCap THEN Len(matches) ELSE MatchCap)

\* read.py lines 59-87, listing.py lines 108-136: the payload when the id
\* does not resolve
UnresolvedPayload(r, sessions_) ==
    IF r.kind = "matches"
    THEN [success |-> FALSE, kind |-> "matches",
          matches |-> Candidates(r.matches, sessions_),
          total |-> Len(r.matches)]
    ELSE [success |-> FALSE, kind |-> "not_found"]

(***************************************************************************)
(* The entries of a log file.  The content of a user entry is the text     *)
(* extract_text_content finds in it: "" for an entry that carries only     *)
(* tool results.  An assistant entry carries a reply and at most one       *)
(* TodoWrite tool use; todos = <<>> stands for none.                       *)
(***************************************************************************)
CaveatText == "Caveat: The messages below were generated"
CommandText == "<command-name>/x</command-name>"

UserContents == {"", "hi", CaveatText, CommandText}

LogTodoLists ==
    { <<[id |-> "", content |-> "a", status |-> "completed"]>>,
      <<[id |-> "", content |-> "a", status |-> "completed"],
        [id |-> "", content |-> "b", status |-> "completed"]>>,
      <<[id |-> "", content |-> "b", status |-> "completed"]>> }

LogEntries ==
    [type : {"user"}, content : UserContents, todos : {<<>>}]
        \cup [type : {"assistant"}, content : {"ok"}, todos : {<<>>} \cup LogTodoLists]
        \cup {[type |-> "progress", content |-> "", todos |-> <<>>]}

\* extraction.is_local_command_noise (lines 95-102)
is_local_command_noise(content) == content = CaveatText

\* extraction.clean_local_command (lines 105-119)
clean_local_command(content) ==
    IF content = CommandText THEN "[/x]" ELSE content

\* extraction.py lines 251-269 over a whole log: the snapshots of its
\* TodoWrite tool uses
RECURSIVE SnapshotsFrom(_, _, _)
SnapshotsFrom(log, k, mi) ==
    IF k > Len(log) THEN <<>>
    ELSE LET e == log[k]
             mi2 == IF e.type \in {"user", "assistant"} THEN mi + 1 ELSE mi
         IN  (IF e.type = "assistant" /\ e.todos # <<>>
              THEN <<Snapshot(mi2, e.todos)>> ELSE <<>>)
                 \o SnapshotsFrom(log, k + 1, mi2)

SnapshotsOfLog(log) == SnapshotsFrom(log, 1, 0)

\* the 'episodes' field of the cached record of a log
EpisodesOfLog(log) == episodes_of(SnapshotsOfLog(log))

\* read._get_tool_detail for TodoWrite joined to the reply (lines 38-40,
\* 122-136)
AssistantContent(e) ==
    IF e.todos = <<>> THEN e.content
    ELSE IF Len(e.todos) = 1 THEN "ok\n[TodoWrite: 1 items]"
    ELSE "ok\n[TodoWrite: 2 items]"

\* read.py lines 104-143: the loop state is msg_index, user_turn_count and
\* all_messages
ReadStep(acc, e) ==
    IF e.type \notin {"user", "assistant"} THEN acc
    ELSE LET msg_index == acc.msg_index + 1 IN
         IF e.type = "user"
         THEN IF e.content # "" /\ ~is_local_command_noise(e.content)
              THEN [msg_index |-> msg_index,
                    user_turn_count |-> acc.user_turn_count + 1,
                    all_messages |-> Append(acc.all_messages,
                        [role |-> "user",
                         content |-> clean_local_command(e.content),
                         index |-> msg_index,
                         userTurn |-> acc.user_turn_count + 1])]
              ELSE [acc EXCEPT !.msg_index = msg_index]
         ELSE [msg_index |-> msg_index,
               user_turn_count |-> acc.user_turn_count,
               all_messages |-> Append(acc.all_messages,
                   [role |-> "assistant",
                    content |-> AssistantContent(e),
                    index |-> msg_index,
                    userTurn |-> acc.user_turn_count])]

RECURSIVE ReadFold(_, _, _)
ReadFold(acc, log, k) ==
    IF k > Len(log) THEN acc
    ELSE ReadFold(ReadStep(acc, log[k]), log, k + 1)

ReadLog(log) ==
    ReadFold([msg_index |-> 0, user_turn_count |-> 0, all_messages |-> <<>>], log, 1)

\* list[a:b] for 0 <= a and 0 <= b
PySlice(s, a, b) == SubSeq(s, a + 1, IF b < Len(s) THEN b ELSE Len(s))

CONTEXT_TURNS == 2
DEFAULT_MESSAGE_LIMIT == 50

Larger(a, b) == IF a > b THEN a ELSE b
Smaller(a, b) == IF a < b THEN a ELSE b

\* read.py lines 190-194: the titles the error string lists, numbered from 1
EpisodeTitles(episode_list) ==
    [i \in 1..Len(episode_list) |-> <<i, episode_list[i].title>>]

\* read.py lines 145-253, for a session whose file is on disk.  A command
\* is [mode, n, m, expand]: the argument that is not None and its value.
\* The strings of a payload are kept as the values they are formatted from.
ReadMessages(data, session_id, cmd) ==
    LET st == ReadLog(data.log)
        all_messages == st.all_messages
        user_turn_count == st.user_turn_count
        total_messages == Len(all_messages)
        episode_list == EpisodesOfLog(data.log)
        Selected(actual_start, actual_end) ==
            LET s == Larger(0, actual_start - cmd.expand)
                e == Smaller(total_messages, actual_end + cmd.expand)
            IN  [success |-> TRUE, kind |-> "range", sessionId |-> session_id,
                 range |-> <<s, e>>, messages |-> PySlice(all_messages, s, e)]
    IN  CASE cmd.mode = "message" ->
               IF \E i \in 1..total_messages : all_messages[i].index = cmd.n
               THEN [success |-> TRUE, kind |-> "message", sessionId |-> session_id,
                     message |-> all_messages[CHOOSE i \in 1..total_messages :
                                                  all_messages[i].index = cmd.n]]
               ELSE [success |-> FALSE, kind |-> "message_not_found",
                     message |-> cmd.n, named_count |-> total_messages]
          [] cmd.mode = "episode" ->
               IF cmd.n < 1 \/ cmd.n > Len(episode_list)
               THEN IF episode_list = <<>>
                    THEN [success |-> FALSE, kind |-> "no_episodes",
                          hint |-> "turn", turns |-> user_turn_count]
                    ELSE [success |-> FALSE, kind |-> "episode_not_found",
                          episode |-> cmd.n,
                          available |-> EpisodeTitles(episode_list)]
               ELSE Selected(episode_list[cmd.n].message_range[1],
                             episode_list[cmd.n].message_range[2])
          [] cmd.mode = "turn" ->
               IF cmd.n < 1 \/ cmd.n > user_turn_count
               THEN [success |-> FALSE, kind |-> "turn_out_of_range",
                     turn |-> cmd.n, turns |-> user_turn_count]
               ELSE [success |-> TRUE, kind |-> "turn", sessionId |-> session_id,
                     turn |-> cmd.n,
                     messages |-> SelectSeq(all_messages, LAMBDA msg :
                         /\ Larger(1, cmd.n - CONTEXT_TURNS) <= msg.userTurn
                         /\ msg.userTurn <= Smaller(user_turn_count, cmd.n + CONTEXT_TURNS))]
          [] cmd.mode = "range" ->
               Selected(Larger(0, cmd.n), Smaller(total_messages, cmd.m))
          [] cmd.mode = "last" ->
               Selected(Larger(0, total_messages - cmd.n), total_messages)
          [] OTHER ->
               Selected(0, Smaller(DEFAULT_MESSAGE_LIMIT, total_messages))

\* commands/read.py read (lines 44-253)
read(sessions_, session_id, cmd) ==
    LET r == resolve_session_id(session_id, sessions_) IN
    IF r.full_id = <<>> THEN UnresolvedPayload(r, sessions_)
    ELSE LET data == DataOf(sessions_, r.full_id) IN
         IF ~data.exists
         THEN [success |-> FALSE, kind |-> "no_file"]
         ELSE ReadMessages(data, r.full_id, cmd)

\* extraction.py lines 244-247 and 369: the user entries that carry text
user_message_count_of(log) ==
    Cardinality({k \in 1..Len(log) : log[k].type = "user" /\ log[k].content # ""})

\* commands/listing.py episodes (lines 99-168)
episodes(sessions_, session_id) ==
    LET r == resolve_session_id(session_id, sessions_) IN
    IF r.full_id = <<>> THEN UnresolvedPayload(r, sessions_)
    ELSE LET data == DataOf(sessions_, r.full_id) IN
         [success |-> TRUE, kind |-> "episodes", sessionId |-> r.full_id,
          episodes |-> EpisodesOfLog(data.log),
          turns |-> user_message_count_of(data.log)]

(***************************************************************************)
(* The caches a command runs on.  The timestamp of a session is a day, 0   *)
(* when the record has none ('' sorts before every timestamp).             *)
(***************************************************************************)
Digits4 == <<"0", "1", "2", "3">>

SessionIdOf(k) == <<"a", Digits4[((k - 1) \div 4) + 1], Digits4[((k - 1) % 4) + 1]>>

StampPatterns == 1..3

Stamp(p, k) ==
    CASE p = 1 -> k
      [] p = 2 -> MaxSessions + 1 - k
      [] OTHER -> k % 3

ManySessions(n, p) ==
    [k \in 1..n |-> [sessionId |-> SessionIdOf(k), timestamp |-> Stamp(p, k),
                     exists |-> TRUE, log |-> <<>>]]

OneSession(log, exists) ==
    <<[sessionId |-> SessionIdOf(1), timestamp |-> 1, exists |-> exists, log |-> log]>>

\* a cache in which one id is a proper prefix of two others, in either
\* dict order
NestedIds == <<<<"a", "0">>, <<"a", "0", "0">>, <<"a", "0", "1">>, <<"b", "1">>>>

NestedSessions(p) ==
    [k \in 1..Len(NestedIds) |->
        [sessionId |-> IF p = 1 THEN NestedIds[k] ELSE NestedIds[Len(NestedIds) + 1 - k],
         timestamp |-> k, exists |-> TRUE, log |-> <<>>]]

SessionFamilies ==
    {ManySessions(n, p) : n \in {0, 2, 3, MatchCap, MaxSessions - 1, MaxSessions},
                          p \in StampPatterns}
        \cup {OneSession(log, TRUE) : log \in SeqsUpTo(LogEntries, MaxLogLen)}
        \cup {OneSession(<<>>, FALSE)}
        \cup {NestedSessions(p) : p \in 1..2}

PartialIds ==
    {<<>>, <<"a">>, <<"a", "0">>, <<"a", "0", "0">>, <<"a", "2">>, <<"b">>}

ReadCmds ==
    [mode : {"message"}, n : 0..(MaxLogLen + 1), m : {0}, expand : {0}]
        \cup [mode : {"episode"}, n : 0..3, m : {0}, expand : {0, 1}]
        \cup [mode : {"turn"}, n : 0..3, m : {0}, expand : {0}]
        \cup [mode : {"range"}, n : {0, 1}, m : {1, 3}, expand : {0}]
        \cup [mode : {"last"}, n : {1, 2}, m : {0}, expand : {0}]
        \cup [mode : {"all"}, n : {0}, m : {0}, expand : {0}]

NoRead == [command |-> "none"]

InitRead ==
    /\ sessions \in SessionFamilies
    /\ readOut = NoRead

\* one run of `deja <id>...`: commands/read.py read
Read ==
    /\ readOut = NoRead
    /\ \E session_id \in PartialIds, cmd \in ReadCmds :
          readOut' = [command |-> "read", session_id |-> session_id, cmd |-> cmd,
                      payload |-> read(sessions, session_id, cmd)]
    /\ UNCHANGED <<sessions, extractVars, cacheVars, searchVars, stemVars>>

\* one run of the episode overview: commands/listing.py episodes
EpisodesCommand ==
    /\ readOut = NoRead
    /\ \E session_id \in PartialIds :
          readOut' = [command |-> "episodes", session_id |-> session_id,
                      payload |-> episodes(sessions, session_id)]
    /\ UNCHANGED <<sessions, extractVars, cacheVars, searchVars, stemVars>>

NextRead == Read \/ EpisodesCommand

(***************************************************************************)
(* stemmer.py PorterStemmer.stem applied to a word, and again to its       *)
(* result.  The words are all words over StemLetters of at most            *)
(* MaxWordLen letters and a few words of the language.                     *)
(***************************************************************************)
MaxWordLen == 4         \* letters of a generated word

StemLetters == {"a", "e", "s", "c", "d", "y"}

StemWords ==
    (SeqsUpTo(StemLetters, MaxWordLen) \ {<<>>})
        \cup { <<"a", "g", "r", "e", "e", "d">>,
               <<"c", "e", "a", "s", "e">>,
               <<"f", "i", "x", "i", "n", "g">>,
               <<"r", "e", "l", "a", "t", "i", "o", "n", "a", "l">>,
               <<"h", "o", "p", "e", "f", "u", "l", "n", "e", "s", "s">>,
               <<"p", "o", "n", "i", "e", "s">> }

InitStem ==
    /\ stem_input \in StemWords
    /\ stems = <<>>

\* stem(word)
StemWord ==
    /\ stems = <<>>
    /\ stems' = <<Stem(stem_input)>>
    /\ UNCHANGED <<stem_input, extractVars, cacheVars, searchVars, readVars>>

\* stem(stem(word))
StemAgain ==
    /\ Len(stems) = 1
    /\ stems' = Append(stems, Stem(stems[1]))
    /\ UNCHANGED <<stem_input, extractVars, cacheVars, searchVars, readVars>>

NextStem == StemWord \/ StemAgain

(***************************************************************************)
(* The specifications.  Each runs one part; the variables of the other     *)
(* parts keep their initial values.                                        *)
(***************************************************************************)
CacheIdle ==
    /\ files = [p \in Paths |-> NoFile]
    /\ diskCache = [kind |-> "absent", map |-> EmptyMap]
    /\ cache = EmptyMap
    /\ cacheShape = "map"
    /\ cache_loaded = FALSE
    /\ scan = NoScan

SearchIdle ==
    /\ conversations = <<>>
    /\ notes_cache = <<>>
    /\ now = MaxDay
    /\ searchOut = NoSearch

StemIdle ==
    /\ stem_input = <<>>
    /\ stems = <<>>

ReadIdle ==
    /\ sessions = <<>>
    /\ readOut = NoRead

ExtractInit == InitExtract /\ CacheIdle /\ SearchIdle /\ ReadIdle /\ StemIdle

SpecExtract == ExtractInit /\ [][NextExtract]_vars

CacheInit == InitCache /\ InitExtract /\ SearchIdle /\ ReadIdle /\ StemIdle

SpecCache == CacheInit /\ [][NextCache]_vars

SearchInit == InitSearch /\ InitExtract /\ CacheIdle /\ ReadIdle /\ StemIdle

SpecSearch == SearchInit /\ [][NextSearch]_vars

ReadInit == InitRead /\ InitExtract /\ CacheIdle /\ SearchIdle /\ StemIdle

SpecRead == ReadInit /\ [][NextRead]_vars

StemInit == InitStem /\ InitExtract /\ CacheIdle /\ SearchIdle /\ ReadIdle

SpecStem == StemInit /\ [][NextStem]_vars

(***************************************************************************)
(* Properties of the extraction, checked under SpecExtract.  Every         *)
(* reachable state is the state of the loop after some prefix of a log,    *)
(* and a prefix of a log is a log, so an invariant speaks of every log     *)
(* within the bounds.                                                      *)
(***************************************************************************)
Episodes == episodes_of(todo_snapshots)
FinalTodos == final_todos(todo_snapshots)
Start(e) == e.message_range[1]
End(e) == e.message_range[2]

\* the contents of the todos of a list that have status c, in list order
RECURSIVE ContentsWithStatus(_, _)
ContentsWithStatus(todos, c) ==
    IF todos = <<>> THEN <<>>
    ELSE LET rest == ContentsWithStatus(Tail(todos), c) IN
         IF Head(todos).content # "" /\ Head(todos).status = c
         THEN <<Head(todos).content>> \o rest
         ELSE rest

\* content x has status st in some todo of snapshot k
HasStatusIn(k, x, st) ==
    \E i \in 1..Len(todo_snapshots[k].todos) :
        /\ todo_snapshots[k].todos[i].content = x
        /\ todo_snapshots[k].todos[i].status = st

\* C1: the snapshots' message_index values are non-decreasing, and the
\* episodes, in list order, have start <= end, each start >= the previous
\* end, and the first start is 0.
C1_EpisodeRangesOrdered ==
    LET eps == Episodes IN
    /\ \A k \in 2..Len(todo_snapshots) :
          todo_snapshots[k - 1].message_index <= todo_snapshots[k].message_index
    /\ eps # <<>> => Start(eps[1]) = 0
    /\ \A i \in 1..Len(eps) : Start(eps[i]) <= End(eps[i])
    /\ \A i \in 2..Len(eps) : Start(eps[i]) >= End(eps[i - 1])

\* two episodes closed by different snapshots at different message indices
C1_Witness ==
    LET eps == Episodes IN
    /\ Len(eps) >= 2
    /\ End(eps[1]) < End(eps[2])
    /\ Start(eps[2]) > 0

\* C2: every episode title is the non-empty content of a todo that is
\* completed in some snapshot of the sequence.
C2_TitlesWereCompleted ==
    LET eps == Episodes IN
    \A i \in 1..Len(eps) :
        /\ eps[i].title # ""
        /\ \E k \in 1..Len(todo_snapshots) : HasStatusIn(k, eps[i].title, "completed")

\* an episode exists next to a content that was in progress and never completed
C2_Witness ==
    LET eps == Episodes IN
    /\ eps # <<>>
    /\ \E k \in 1..Len(todo_snapshots), x \in Contents \ {""} :
          /\ HasStatusIn(k, x, "in_progress")
          /\ \A j \in 1..Len(todo_snapshots) : ~HasStatusIn(j, x, "completed")
          /\ \A i \in 1..Len(eps) : eps[i].title # x

C4_FinalFromLatestOnly ==
    LET final == FinalTodos IN
    ~ExtractRaises(todo_snapshots) =>
        IF todo_snapshots = <<>>
        THEN /\ Episodes = <<>>
             /\ \A c \in Categories : final[c] = <<>>
             /\ work_items(todo_snapshots) = {}
        ELSE \A c \in Categories :
                final[c] = ContentsWithStatus(Last(todo_snapshots).todos, c)

\* the latest snapshot differs from an earlier one whose content "b" it dropped
C4_Witness ==
    LET final == FinalTodos IN
    /\ Len(todo_snapshots) >= 2
    /\ ~ExtractRaises(todo_snapshots)
    /\ \E st \in Categories : HasStatusIn(1, "b", st)
    /\ \A st \in Statuses : ~HasStatusIn(Len(todo_snapshots), "b", st)
    /\ final["completed"] = <<"a">>
    /\ final["pending"] = <<"a: d">>

(***************************************************************************)
(* Properties of the cache scan, checked under SpecCache.  `scan` holds    *)
(* the record of an ensure_cache_fresh call in the states that follow it   *)
(* directly, before the environment changes anything.                      *)
(***************************************************************************)
ScanOnMap == IF Returned(scan) THEN scan.shape = "map" ELSE FALSE

HasSchemaKeys(rec) == "term_counts" \in DOMAIN rec /\ "episodes" \in DOMAIN rec

\* C5: a file is handed to extract_conversation_data iff its session id is
\* absent from the cache, or the cached mtime is older than the file's, or
\* the cached record lacks term_counts or episodes; afterwards the entry is
\* either untouched or the complete new record, never a mix of the two.
C5_ReparseIffStale ==
    ScanOnMap =>
        /\ DOMAIN scan.log = ExistingPaths
        /\ \A p \in DOMAIN scan.log :
              LET e == scan.log[p] IN
              /\ e.reparsed <=> \/ e.prev = NoFile
                                \/ e.prev.mtime < e.mtime
                                \/ ~HasSchemaKeys(e.prev)
              /\ e.stored => /\ e.reparsed
                             /\ DOMAIN e.next = CurrentKeys
                             /\ e.next.mtime = e.mtime
                             /\ e.next.file_path = p
              /\ ~e.stored => e.next = e.prev
              /\ (e.reparsed /\ e.kind # "raises") => e.stored

\* a record without the episodes key whose mtime equals the file's is re-extracted
C5_Witness ==
    /\ ScanOnMap
    /\ "pA/s1" \in DOMAIN scan.log
    /\ scan.log["pA/s1"].prev = LegacyV2("pA/s1", scan.log["pA/s1"].mtime)
    /\ scan.log["pA/s1"].stored
    /\ cache["s1"] = ExtractedRecord("pA/s1", files["pA/s1"])

\* every file has a cached record with its mtime and the current schema keys
AllFresh(c) ==
    \A p \in ExistingPaths :
        /\ SessionId(p) \in DOMAIN c
        /\ c[SessionId(p)].mtime = files[p].mtime
        /\ HasSchemaKeys(c[SessionId(p)])

\* C6: a scan over files that are all fresh in the cache changes no record
\* and writes nothing; so does a scan that directly follows a call that
\* returned; and a scan writes the cache file once, with the final map, iff
\* it replaced a record.
C6_FreshScanIsNoOp ==
    Returned(scan) =>
        /\ (scan.shape = "map" /\ AllFresh(scan.before)) =>
              (scan.after = scan.before /\ scan.writes = 0)
        /\ scan.follows => (scan.after = scan.before /\ scan.writes = 0)
        /\ scan.writes = 1 <=> \E p \in DOMAIN scan.log : scan.log[p].stored
        /\ scan.writes = 0 => scan.after = scan.before
        /\ scan.writes = 1 => diskCache = [kind |-> "map", map |-> scan.after]
        /\ cache = scan.after

\* the second of two calls in a row, over two files the first call indexed
C6_Witness ==
    /\ Returned(scan)
    /\ scan.follows
    /\ scan.shape = "map"
    /\ Cardinality(ExistingPaths) >= 2
    /\ AllFresh(scan.before)
    /\ scan.writes = 0
    /\ diskCache = [kind |-> "map", map |-> cache]

\* C7 as stated: a file that needs re-extraction and cannot be read leaves
\* the entry of its session id as it was and creates none.
C7_UnreadableFileSkipped ==
    Returned(scan) =>
        \A p \in DOMAIN scan.log :
            (scan.log[p].kind = "unreadable" /\ scan.log[p].reparsed) =>
                (~scan.log[p].stored /\ scan.log[p].next = scan.log[p].prev)

\* C8 as stated: loading an absent or corrupt cache file raises nothing and
\* leaves the empty map, and the scan that follows extracts every session.
C8_LoadNeverFails ==
    (scan.id = "scan" /\ scan.loaded /\ scan.found \in {"absent"} \cup CorruptKinds) =>
        /\ ~scan.raised
        /\ scan.shape = "map"
        /\ scan.before = EmptyMap
        /\ \A p \in ExistingPaths :
              \E q \in DOMAIN scan.log :
                  SessionId(q) = SessionId(p) /\ scan.log[q].reparsed

(***************************************************************************)
(* Properties of the search, checked under SpecSearch.                     *)
(***************************************************************************)
\* the cached record a result was made from
ItemOf(session_id) ==
    conversations[CHOOSE k \in 1..Len(conversations) :
                      conversations[k].sessionId = session_id]

\* none of the five categories has anything of the query: no term is a
\* substring of the work items, the notes, the files or the commands, and
\* no stem of the query is a key of term_counts
NoCategoryMatches(item, query) ==
    LET work == Lower(Join(item.data.work_items))
        notes == Lower(Join(get_notes_for_session(item.sessionId)))
        files_touched == Lower(Join(item.data.files_touched))
        commands == Lower(Join(item.data.commands_run))
    IN  /\ \A t \in Range(TermsOfQuery[query]) :
              /\ ~Contains(t, work)
              /\ ~Contains(t, notes)
              /\ ~Contains(t, files_touched)
              /\ ~Contains(t, commands)
        /\ StemsOfQuery[query] \cap item.data.term_counts = {}

\* C9: a record for which none of the five categories matches the query is
\* in no result of the search, on the page or off it, and is not counted in
\* totalMatches, whatever its recency boost; every result has a score above
\* its recency boost, so the boost is added to category scores > 0 only.
C9_NoCategoryMatchNoResult ==
    searchOut.id = "search" =>
        LET out == searchOut IN
        /\ \A k \in 1..Len(conversations) :
              NoCategoryMatches(conversations[k], out.query) =>
                  /\ \A j \in 1..Len(out.matches) :
                        out.matches[j].sessionId # conversations[k].sessionId
                  /\ \A j \in 1..Len(out.results) :
                        out.results[j].sessionId # conversations[k].sessionId
        /\ out.totalMatches =
              Cardinality({k \in 1..Len(conversations) :
                  /\ PassesFilters(conversations[k].data, out.project, out.after, out.before)
                  /\ ~NoCategoryMatches(conversations[k], out.query)})
        /\ \A j \in 1..Len(out.matches) :
              out.matches[j].score
                  > recency_boost(ItemOf(out.matches[j].sessionId).data.timestamp, now)

\* a search that let a record of today through the filters, found nothing
\* of the query in it, and returned another record
C9_Witness ==
    /\ searchOut.id = "search"
    /\ searchOut.totalMatches = 1
    /\ Len(searchOut.results) = 1
    /\ \E k \in 1..Len(conversations) :
          /\ NoCategoryMatches(conversations[k], searchOut.query)
          /\ PassesFilters(conversations[k].data, searchOut.project,
                           searchOut.after, searchOut.before)
          /\ recency_boost(conversations[k].data.timestamp, now) = 2

\* C10: with the record, the notes and the day fixed, the score does not
\* go down when terms are added to the query: for every query Q2 that has
\* all the terms of the query Q of the search, every match of Q is a match
\* of Q2 (its category score for Q2 is not 0) and its score for Q2 is at
\* least its score for Q.  A match is a record of the scored list that
\* totalMatches counts, before the page is cut out of it.
C10_ScoreMonotoneInTerms ==
    searchOut.id = "search" =>
        \A q2 \in Queries :
            Range(TermsOfQuery[searchOut.query]) \subseteq Range(TermsOfQuery[q2]) =>
                \A j \in 1..Len(searchOut.matches) :
                    LET item == ItemOf(searchOut.matches[j].sessionId)
                        m2 == Match(item.sessionId, item.data, TermsOfQuery[q2], StemsOfQuery[q2])
                    IN  /\ ~IsExcluded(CategoryScore(m2))
                        /\ Score(m2, item.data.timestamp, now) >= searchOut.matches[j].score

\* a search for "Bug" whose match scores more for "Bug fix"
C10_Witness ==
    /\ searchOut.id = "search"
    /\ searchOut.query = <<"B", "u", "g">>
    /\ \E j \in 1..Len(searchOut.matches) :
          LET item == ItemOf(searchOut.matches[j].sessionId)
              q2 == <<"B", "u", "g", " ", "f", "i", "x">>
          IN  Score(Match(item.sessionId, item.data, TermsOfQuery[q2], StemsOfQuery[q2]),
                    item.data.timestamp, now) > searchOut.matches[j].score

\* the stems of every lowercased term of a query (line 145)
StemsOfTerm ==
    [t \in UNION {Range(TermsOfQuery[q]) : q \in Queries} |-> stem_query(t)]

\* C11: the score of a result is 3 if a term is in the work items, plus 3
\* if one is in the notes, plus 2 if one is in the files, plus 1 if one is
\* in the commands, plus 1 if a stem of the query is a key of term_counts,
\* plus 2*(M-1) when M > 1, plus the recency boost; each weight is added
\* once however many terms are found, and M counts the distinct terms of
\* the query found in any of the five.
C11_ScoreFormula ==
    searchOut.id = "search" =>
        \A j \in 1..Len(searchOut.matches) :
            LET item == ItemOf(searchOut.matches[j].sessionId)
                terms == Range(TermsOfQuery[searchOut.query])
                work == Lower(Join(item.data.work_items))
                notes == Lower(Join(get_notes_for_session(item.sessionId)))
                files_touched == Lower(Join(item.data.files_touched))
                commands == Lower(Join(item.data.commands_run))
                One(b) == IF b THEN 1 ELSE 0
                M == Cardinality({t \in terms :
                         \/ Contains(t, work)
                         \/ Contains(t, notes)
                         \/ Contains(t, files_touched)
                         \/ Contains(t, commands)
                         \/ StemsOfTerm[t] \cap item.data.term_counts # {}})
            IN  searchOut.matches[j].score =
                    3 * One(\E t \in terms : Contains(t, work))
                    + 3 * One(\E t \in terms : Contains(t, notes))
                    + 2 * One(\E t \in terms : Contains(t, files_touched))
                    + 1 * One(\E t \in terms : Contains(t, commands))
                    + 1 * One(StemsOfQuery[searchOut.query] \cap item.data.term_counts # {})
                    + (IF M > 1 THEN 2 * (M - 1) ELSE 0)
                    + recency_boost(item.data.timestamp, now)

\* the search for "Bug fix" over the record whose files hold src/bugfix.py
\* and whose stems hold fix: both terms are in the one file name, the score
\* is 2 + 1 + 2 and the boost of a record three days old
C11_Witness ==
    /\ searchOut.id = "search"
    /\ searchOut.query = <<"B", "u", "g", " ", "f", "i", "x">>
    /\ \E j \in 1..Len(searchOut.matches) :
          LET item == ItemOf(searchOut.matches[j].sessionId) IN
          /\ item.data.files_touched = <<<<"s", "r", "c", "/", "b", "u", "g", "f", "i", "x", ".", "p", "y">>>>
          /\ item.data.term_counts = {<<"f", "i", "x">>}
          /\ get_notes_for_session(item.sessionId) = <<>>
          /\ searchOut.matches[j].matchSource = <<"files", "text">>
          /\ searchOut.matches[j].score = 2 + 1 + 2 + 1

\* C12: the timestamp bounds are inclusive-exclusive: of the records that
\* have a timestamp t, pass the project filter and match the query in some
\* category, the search lists exactly those with after <= t < before (a
\* bound that is not given does not restrict), so that a record with
\* t = after is kept and a record with t = before is left out.
C12_TimestampFilterHalfOpen ==
    searchOut.id = "search" =>
        \A k \in 1..Len(conversations) :
            LET item == conversations[k]
                t == item.data.timestamp
                listed == \E j \in 1..Len(searchOut.matches) :
                              searchOut.matches[j].sessionId = item.sessionId
            IN  (/\ t # NoTimestamp
                 /\ PassesFilters(item.data, searchOut.project, NoTimestamp, NoTimestamp)
                 /\ ~NoCategoryMatches(item, searchOut.query))
                => (listed <=>
                        /\ (searchOut.after # NoTimestamp => searchOut.after <= t)
                        /\ (searchOut.before # NoTimestamp => t < searchOut.before))

\* the two results at positions i < j of the list, by a key of the records
InOrder(recent, score1, key1, score2, key2) ==
    IF recent THEN key1 >= key2
    ELSE score1 > score2 \/ (score1 = score2 /\ key1 >= key2)

\* C13 as stated: the results are ordered by (score descending,
\* conversation timestamp descending), and by conversation timestamp
\* descending alone with the recency-sort flag: of two results that have a
\* timestamp and the same score, the one with the later timestamp is first.
C13_OrderedByConversationTimestamp ==
    searchOut.id = "search" =>
        \A i, j \in 1..Len(searchOut.matches) :
            LET d1 == ItemOf(searchOut.matches[i].sessionId).data
                d2 == ItemOf(searchOut.matches[j].sessionId).data
            IN  (i < j /\ d1.timestamp # NoTimestamp /\ d2.timestamp # NoTimestamp)
                => InOrder(searchOut.recent, searchOut.matches[i].score, d1.timestamp,
                           searchOut.matches[j].score, d2.timestamp)

\* C13, amended: the results are ordered by (score descending, mtime of
\* the log file descending), and by mtime descending alone with the
\* recency-sort flag; results equal in these keys keep the order of the
\* cache.
C13_OrderedByMtime ==
    searchOut.id = "search" =>
        \A i, j \in 1..Len(searchOut.matches) :
            LET d1 == ItemOf(searchOut.matches[i].sessionId).data
                d2 == ItemOf(searchOut.matches[j].sessionId).data
                k1 == CHOOSE k \in 1..Len(conversations) :
                          conversations[k].sessionId = searchOut.matches[i].sessionId
                k2 == CHOOSE k \in 1..Len(conversations) :
                          conversations[k].sessionId = searchOut.matches[j].sessionId
            IN  i < j =>
                  /\ InOrder(searchOut.recent, searchOut.matches[i].score, d1.mtime,
                             searchOut.matches[j].score, d2.mtime)
                  /\ (/\ d1.mtime = d2.mtime
                      /\ (searchOut.recent
                            \/ searchOut.matches[i].score = searchOut.matches[j].score))
                     => k1 < k2

\* a default-order search with two results of the same score, the first
\* started earlier and written later than the second, and it was behind
\* the second in the cache
C13_Witness ==
    /\ searchOut.id = "search"
    /\ ~searchOut.recent
    /\ Len(searchOut.matches) = 2
    /\ searchOut.matches[1].sessionId = "s2"
    /\ searchOut.matches[1].score = searchOut.matches[2].score
    /\ ItemOf("s2").data.timestamp < ItemOf("s1").data.timestamp
    /\ ItemOf("s2").data.timestamp # NoTimestamp
    /\ ItemOf("s2").data.mtime > ItemOf("s1").data.mtime

\* C14: the page is the positions skip+1 .. skip+limit of the sorted list
\* of matches, as far as the list goes, so it has at most limit results;
\* the page that follows it (skip + limit) continues it without a gap or
\* an overlap; and totalMatches is the length of the whole list, which is
\* the number of records that pass the filters and match, whatever skip
\* and limit are.
C14_PageIsSlice ==
    searchOut.id = "search" =>
        LET out == searchOut
            n == IF out.skip >= Len(out.matches) THEN 0
                 ELSE IF out.limit < Len(out.matches) - out.skip THEN out.limit
                 ELSE Len(out.matches) - out.skip
        IN  /\ Len(out.results) = n
            /\ Len(out.results) <= out.limit
            /\ \A i \in 1..n : out.results[i] = out.matches[out.skip + i]
            /\ out.results \o Slice(out.matches, out.skip + out.limit, out.limit)
                   = Slice(out.matches, out.skip, 2 * out.limit)
            /\ out.totalMatches = Len(out.matches)
            /\ out.totalMatches =
                  Cardinality({k \in 1..Len(conversations) :
                      /\ PassesFilters(conversations[k].data, out.project, out.after, out.before)
                      /\ ~NoCategoryMatches(conversations[k], out.query)})

\* the second page of one result, of a list of two
C14_Witness ==
    /\ searchOut.id = "search"
    /\ searchOut.skip = 1
    /\ searchOut.limit = 1
    /\ Len(searchOut.matches) = 2
    /\ searchOut.results = <<searchOut.matches[2]>>
    /\ searchOut.totalMatches = 2

(***************************************************************************)
(* Properties of the events of the extraction loop, checked under          *)
(* SpecExtract as properties of its steps.                                 *)
(***************************************************************************)
\* C15: a TaskUpdate whose task id is the id of no todo of the latest
\* snapshot, or that comes when there is no snapshot, leaves the snapshot
\* sequence as it is: nothing is appended and the latest todos stay.
C15_UnknownTaskUpdateIsNoOp ==
    [][(/\ event'.tool = "TaskUpdate"
        /\ IF todo_snapshots = <<>> THEN TRUE
           ELSE \A i \in 1..Len(Last(todo_snapshots).todos) :
                   Last(todo_snapshots).todos[i].id # event'.taskId)
       => todo_snapshots' = todo_snapshots]_vars

(***************************************************************************)
(* C16.  When the session id given to read or to episodes is no key of     *)
(* the cache and is a prefix of two or more keys, the payload has success  *)
(* false and lists candidates: at most 10, ordered by conversation         *)
(* timestamp from the most recent on, none of the sessions left out being  *)
(* more recent than a listed one; `total` is the number of all matching    *)
(* sessions; the payload carries no messages and no episodes.              *)
(***************************************************************************)
PrefixMatches(partial_id) ==
    {k \in 1..Len(sessions) : StartsWith(sessions[k].sessionId, partial_id)}

IsAmbiguous(partial_id) ==
    /\ \A k \in 1..Len(sessions) : sessions[k].sessionId # partial_id
    /\ Cardinality(PrefixMatches(partial_id)) >= 2

ReadSession ==
    DataOf(sessions, resolve_session_id(readOut.session_id, sessions).full_id)

ReadReachesMessages ==
    /\ readOut.command = "read"
    /\ resolve_session_id(readOut.session_id, sessions).full_id # <<>>
    /\ ReadSession.exists

MessageIndices(log) ==
    {ReadLog(log).all_messages[i].index : i \in 1..Len(ReadLog(log).all_messages)}

\* C17 as stated: the count named by a not-found error bounds the valid
\* message indices.
C17_RangeErrorsNameValidBounds ==
    ReadReachesMessages =>
        LET log == ReadSession.log
            cmd == readOut.cmd
            p == readOut.payload
            episode_list == EpisodesOfLog(log)
        IN  /\ (cmd.mode = "episode" /\ (cmd.n < 1 \/ cmd.n > Len(episode_list))) =>
                  /\ p.success = FALSE
                  /\ IF episode_list = <<>> THEN p.kind = "no_episodes"
                     ELSE /\ p.kind = "episode_not_found"
                          /\ p.available = [i \in 1..Len(episode_list) |->
                                               <<i, episode_list[i].title>>]
            /\ (cmd.mode = "turn" /\ (cmd.n < 1 \/ cmd.n > ReadLog(log).user_turn_count)) =>
                  /\ p.success = FALSE
                  /\ p.kind = "turn_out_of_range"
                  /\ p.turns = ReadLog(log).user_turn_count
            /\ (cmd.mode = "message" /\ cmd.n \notin MessageIndices(log)) =>
                  /\ p.success = FALSE
                  /\ p.kind = "message_not_found"
                  /\ MessageIndices(log) = 1..p.named_count

(***************************************************************************)
(* C20.  A read of episode k with expand 0 returns exactly the messages    *)
(* built from the user/assistant entries whose position in the count of    *)
(* user/assistant entries lies in the message_range of episode k: after    *)
(* the previous boundary, up to the entry that completed the todo.         *)
(***************************************************************************)
MessagesOfRange(log, message_range) ==
    SelectSeq(ReadLog(log).all_messages,
              LAMBDA msg : message_range[1] < msg.index /\ msg.index <= message_range[2])

\* C20 as stated: reading an episode returns the messages whose index lies
\* in the episode's message_range.
C20_EpisodeReadFollowsMessageRange ==
    (/\ ReadReachesMessages
     /\ readOut.cmd.mode = "episode"
     /\ readOut.cmd.expand = 0
     /\ readOut.cmd.n \in 1..Len(EpisodesOfLog(ReadSession.log))) =>
        /\ readOut.payload.success
        /\ readOut.payload.messages =
               MessagesOfRange(ReadSession.log,
                   EpisodesOfLog(ReadSession.log)[readOut.cmd.n].message_range)

(***************************************************************************)
(* C19.  When one snapshot newly completes k >= 2 distinct contents, k     *)
(* episodes are emitted for it in the order of its todo list, all ending   *)
(* at the snapshot's message_index.  As stated: all but the last of them   *)
(* have a range of zero or negative width and the last one starts at the   *)
(* previous boundary.  As the code has it: the first one starts at the     *)
(* previous boundary and all but the first have a range of zero width.     *)
(***************************************************************************)
EpisodesUpTo(s) == episodes_of(SubSeq(todo_snapshots, 1, s))

\* the episodes emitted for snapshot s
Batch(s) == SubSeq(EpisodesUpTo(s), Len(EpisodesUpTo(s - 1)) + 1, Len(EpisodesUpTo(s)))

\* the boundary before snapshot s: the end of the last episode before it
BoundaryBefore(s) ==
    IF EpisodesUpTo(s - 1) = <<>> THEN 0
    ELSE Last(EpisodesUpTo(s - 1)).message_range[2]

\* the contents snapshot s newly completes, in the order of its list
NewlyCompleted(s) ==
    LET todos == todo_snapshots[s].todos
        closed == {EpisodesUpTo(s - 1)[i].title : i \in 1..Len(EpisodesUpTo(s - 1))}
        idx == SelectSeq([i \in 1..Len(todos) |-> i], LAMBDA i :
                   /\ todos[i].status = "completed"
                   /\ todos[i].content # ""
                   /\ todos[i].content \notin closed
                   /\ \A j \in 1..(i - 1) :
                         ~(todos[j].status = "completed" /\ todos[j].content = todos[i].content))
    IN  [j \in 1..Len(idx) |-> todos[idx[j]].content]

BatchInListOrder(s) ==
    /\ Len(Batch(s)) = Len(NewlyCompleted(s))
    /\ \A i \in 1..Len(Batch(s)) :
          /\ Batch(s)[i].title = NewlyCompleted(s)[i]
          /\ Batch(s)[i].message_range[2] = todo_snapshots[s].message_index

Width(episode) == episode.message_range[2] - episode.message_range[1]

\* C19 as stated: the last of the batch carries the span.
C19_LastOfBatchCarriesSpan ==
    \A s \in 1..Len(todo_snapshots) :
        Len(NewlyCompleted(s)) >= 2 =>
            /\ BatchInListOrder(s)
            /\ \A i \in 1..(Len(Batch(s)) - 1) : Width(Batch(s)[i]) <= 0
            /\ Last(Batch(s)).message_range[1] = BoundaryBefore(s)

\* C19: of the todos first seen completed in one snapshot, the first in list
\* order carries the span since the previous boundary, the others are empty.
C19_FirstOfBatchCarriesSpan ==
    \A s \in 1..Len(todo_snapshots) :
        Len(NewlyCompleted(s)) >= 2 =>
            /\ BatchInListOrder(s)
            /\ Batch(s)[1].message_range[1] = BoundaryBefore(s)
            /\ \A i \in 2..Len(Batch(s)) : Width(Batch(s)[i]) = 0

C19_Witness ==
    \E s \in 1..Len(todo_snapshots) :
        /\ Len(NewlyCompleted(s)) >= 2
        /\ Len(Batch(s)) = 2
        /\ s >= 2
        /\ EpisodesUpTo(s - 1) # <<>>
        /\ BoundaryBefore(s) < todo_snapshots[s].message_index

(***************************************************************************)
(* C18.  Stemming is idempotent: for every word of lowercase letters,      *)
(* stem(stem(w)) = stem(w).                                                *)
(***************************************************************************)
C18_StemIdempotent ==
    Len(stems) = 2 => stems[2] = stems[1]

(***************************************************************************)
(* C21.  The user_message_count of a session's record is the number of     *)
(* user entries of its log with non-empty text that are no disclaimers,    *)
(* and it is the turn count read validates a turn number against.          *)
(***************************************************************************)
UserTurnsOf(log) ==
    Cardinality({k \in 1..Len(log) :
                    /\ log[k].type = "user"
                    /\ log[k].content # ""
                    /\ ~is_local_command_noise(log[k].content)})

\* C21 as stated: user_message_count equals the number of user turns that
\* read counts, disclaimers left out.
C21_DisclaimersNotCounted ==
    (readOut.command = "episodes" /\ readOut.payload.success) =>
        LET log == ReadSession.log IN
        /\ readOut.payload.turns = UserTurnsOf(log)
        /\ readOut.payload.turns = ReadLog(log).user_turn_count

(***************************************************************************)
(* C22.  A TaskUpdate whose task id is the id of a todo of the latest      *)
(* snapshot appends one snapshot with a list of the same length and order  *)
(* in which the todos with that id have the new status and are otherwise   *)
(* as before, and every other todo is as before.  As stated: for every     *)
(* such TaskUpdate.  As the code has it: for every such TaskUpdate that    *)
(* carries a status.                                                       *)
(***************************************************************************)
UpdateMatches ==
    /\ event'.tool = "TaskUpdate"
    /\ event'.taskId # ""
    /\ todo_snapshots # <<>>
    /\ \E i \in 1..Len(Last(todo_snapshots).todos) :
          Last(todo_snapshots).todos[i].id = event'.taskId

UpdateAppendsCopy ==
    /\ Len(todo_snapshots') = Len(todo_snapshots) + 1
    /\ SubSeq(todo_snapshots', 1, Len(todo_snapshots)) = todo_snapshots
    /\ LET old == Last(todo_snapshots).todos
           new == Last(todo_snapshots').todos
       IN  /\ Last(todo_snapshots').message_index = message_index
           /\ Len(new) = Len(old)
           /\ \A i \in 1..Len(old) :
                 /\ new[i].id = old[i].id
                 /\ new[i].content = old[i].content
                 /\ new[i].status = IF old[i].id = event'.taskId
                                    THEN event'.status ELSE old[i].status

\* C22 as stated: every TaskUpdate naming a task id of the last snapshot
\* appends such a snapshot.
C22_EveryMatchingUpdateAppends ==
    [][UpdateMatches => UpdateAppendsCopy]_vars

\* C22: a TaskUpdate that carries a status and names a task id appends one
\* snapshot, a copy of the last with the matching todos' status replaced.
C22_MatchingUpdateWithStatusAppends ==
    [][(UpdateMatches /\ event'.status # "") => UpdateAppendsCopy]_vars

C22_Witness ==
    /\ event.tool = "TaskUpdate"
    /\ event.status = "completed"
    /\ Len(todo_snapshots) >= 2
    /\ LET old == todo_snapshots[Len(todo_snapshots) - 1].todos
           new == Last(todo_snapshots).todos
       IN  /\ Len(old) = 2
           /\ Len(new) = 2
           /\ \E i, j \in 1..2 :
                 /\ old[i].id = event.taskId
                 /\ old[i].status = "pending"
                 /\ new[i].status = "completed"
                 /\ old[j].id # event.taskId
                 /\ new[j] = old[j]

(***************************************************************************)
(* C23.  A TaskCreate appends one snapshot whose list is the latest list   *)
(* (the empty list when there is no snapshot) followed by the new task; a  *)
(* task created without an id gets the id str(len(latest list) + 1).  So   *)
(* when the todos of the latest list carry the ids 1..n in order, as they  *)
(* do after n TaskCreate events without ids and nothing else, the new      *)
(* list carries the ids 1..n+1 in order, all distinct.                     *)
(***************************************************************************)
Numerals == <<"1", "2", "3", "4">>

NumberedInOrder(todos) == \A i \in 1..Len(todos) : todos[i].id = Numerals[i]

\* C23: TaskCreate appends the previous list plus the new task, a task
\* without id getting the numeral of its position.
C23_TaskCreateAppendsNumberedTask ==
    [][event'.tool = "TaskCreate" =>
          LET prev == IF todo_snapshots = <<>> THEN <<>> ELSE Last(todo_snapshots).todos
              new == Last(todo_snapshots').todos
              task == new[Len(new)]
          IN  /\ Len(todo_snapshots') = Len(todo_snapshots) + 1
              /\ SubSeq(todo_snapshots', 1, Len(todo_snapshots)) = todo_snapshots
              /\ Last(todo_snapshots').message_index = message_index
              /\ Len(new) = Len(prev) + 1
              /\ SubSeq(new, 1, Len(prev)) = prev
              /\ task.content = normalize_task(event'.input).content
              /\ task.id = IF event'.input.id = "" THEN Numerals[Len(prev) + 1]
                           ELSE event'.input.id
              /\ (event'.input.id = "" /\ NumberedInOrder(prev)) =>
                    /\ NumberedInOrder(new)
                    /\ \A i, j \in 1..Len(new) : i # j => new[i].id # new[j].id]_vars

C23_Witness ==
    /\ event.tool = "TaskCreate"
    /\ event.input.id = ""
    /\ Len(todo_snapshots) = 2
    /\ Len(todo_snapshots[1].todos) = 1
    /\ Len(todo_snapshots[2].todos) = 2
    /\ todo_snapshots[2].todos[1].id = "1"
    /\ todo_snapshots[2].todos[2].id = "2"

(***************************************************************************)
(* C24.  Episode titles are pairwise distinct.  Every content that is      *)
(* completed in some snapshot closes exactly one episode, at the message   *)
(* index of the first snapshot that holds it completed, also when it is    *)
(* pending, in progress or absent in a later snapshot and completed again  *)
(* after that.                                                             *)
(***************************************************************************)
CompletedIn(k, content) ==
    \E i \in 1..Len(todo_snapshots[k].todos) :
        /\ todo_snapshots[k].todos[i].content = content
        /\ todo_snapshots[k].todos[i].status = "completed"

FirstCompleted(content) ==
    CHOOSE k \in 1..Len(todo_snapshots) :
        /\ CompletedIn(k, content)
        /\ \A j \in 1..(k - 1) : ~CompletedIn(j, content)

\* C24: episode titles are pairwise distinct and each episode sits at the
\* first snapshot that shows its content completed.
C24_OneEpisodePerContent ==
    LET eps == Episodes IN
    /\ \A i, j \in 1..Len(eps) : i # j => eps[i].title # eps[j].title
    /\ \A i \in 1..Len(eps) :
          /\ \E k \in 1..Len(todo_snapshots) : CompletedIn(k, eps[i].title)
          /\ eps[i].completed_at = todo_snapshots[FirstCompleted(eps[i].title)].message_index
    /\ \A k \in 1..Len(todo_snapshots) : \A t \in Range(todo_snapshots[k].todos) :
          (t.status = "completed" /\ t.content # "") =>
              \E i \in 1..Len(eps) : eps[i].title = t.content

C24_Witness ==
    /\ Len(todo_snapshots) = 3
    /\ CompletedIn(1, "a")
    /\ ~CompletedIn(2, "a")
    /\ CompletedIn(3, "a")
    /\ todo_snapshots[1].message_index < todo_snapshots[3].message_index
    /\ Cardinality({i \in 1..Len(Episodes) : Episodes[i].title = "a"}) = 1

(***************************************************************************)
(* C25.  The episodes of a log tile its messages: the first episode        *)
(* starts at 0, every other one starts where the one before it ends;       *)
(* every episode has completed_at equal to its end and message_count       *)
(* equal to end - start, which is not negative; the last episode ends at   *)
(* or before the message_count of the record.                              *)
(***************************************************************************)
C25_EpisodesTileMessages ==
    LET eps == Episodes IN
    /\ eps # <<>> => Start(eps[1]) = 0
    /\ \A i \in 2..Len(eps) : Start(eps[i]) = End(eps[i - 1])
    /\ \A i \in 1..Len(eps) :
          /\ eps[i].completed_at = End(eps[i])
          /\ eps[i].message_count = End(eps[i]) - Start(eps[i])
          /\ eps[i].message_count >= 0
    /\ eps # <<>> => End(eps[Len(eps)]) <= message_index

C25_Witness ==
    LET eps == Episodes IN
    /\ Len(eps) = 3
    /\ Start(eps[2]) = End(eps[1])
    /\ eps[2].message_count > 0
    /\ eps[3].message_count = 0
    /\ End(eps[3]) < message_index

(***************************************************************************)
(* C26.  No step of the extraction changes a snapshot already emitted:     *)
(* after a TodoWrite, TaskCreate, TaskUpdate, user todos or any other      *)
(* entry, the snapshots there were are the first snapshots of the new      *)
(* sequence, with the same message_index and the same todos in the same    *)
(* order.                                                                  *)
(***************************************************************************)
C26_EmittedSnapshotsKept ==
    [][/\ Len(todo_snapshots') >= Len(todo_snapshots)
       /\ SubSeq(todo_snapshots', 1, Len(todo_snapshots)) = todo_snapshots]_vars

C26_Witness ==
    /\ event.tool = "TaskUpdate"
    /\ Len(todo_snapshots) = 3
    /\ \A k \in 1..3 : Len(todo_snapshots[k].todos) = 1
    /\ todo_snapshots[1].todos[1].status = "pending"
    /\ todo_snapshots[2].todos[1].status = "pending"
    /\ todo_snapshots[3].todos[1].status = "in_progress"
    /\ todo_snapshots[3].todos[1].id = todo_snapshots[1].todos[1].id

(***************************************************************************)
(* C27.  When extract_conversation_data raises on a file during a scan,    *)
(* the scan stores nothing for it: the entry of its session id is as it    *)
(* was before the file was processed (none if there was none), and every   *)
(* file there is gets processed.  As stated: the file is handed to         *)
(* extract_conversation_data again by every later scan.  As the code has   *)
(* it: by every later scan that does not find, under the file's session    *)
(* id, a complete record whose mtime is not older than the file's (the     *)
(* record of a file with the same base name in another project).           *)
(***************************************************************************)
ScanOnMapDone(h) ==
    IF h.id = "scan" THEN ~h.raised /\ h.shape = "map" ELSE FALSE

CaughtRaise(h, p) == h.log[p].kind = "raises" /\ h.log[p].reparsed

RaiseLeavesEntry(h) ==
    /\ DOMAIN h.log = ExistingPaths
    /\ \A p \in DOMAIN h.log :
          CaughtRaise(h, p) => (~h.log[p].stored /\ h.log[p].next = h.log[p].prev)

NoError(p) == files[p].kind \in {"ok", "unreadable"}

EntryCurrent(p) ==
    /\ SessionId(p) \in DOMAIN cache
    /\ HasSchemaKeys(cache[SessionId(p)])
    /\ cache[SessionId(p)].mtime >= files[p].mtime

NewerOf(p, q) == IF files[p].mtime > files[q].mtime THEN p ELSE q

\* C28 as stated: of two same-named files the record is always the newer.
C28_ScanLeavesCurrentEntries ==
    ScanOnMap =>
        /\ \A p \in ExistingPaths : NoError(p) => EntryCurrent(p)
        /\ \A p, q \in ExistingPaths :
              (/\ p # q
               /\ SessionId(p) = SessionId(q)
               /\ NoError(p) /\ NoError(q)
               /\ files[p].mtime # files[q].mtime) =>
                  /\ cache[SessionId(p)].file_path = NewerOf(p, q)
                  /\ cache[SessionId(p)].mtime = files[NewerOf(p, q)].mtime

\* C28: after a scan every non-raising file has a complete record that is
\* not older; of two same-named files the newer one is the record, unless
\* the cache held a complete record at least that new, which then stays.
C28_CurrentEntriesUnlessNewerRecord ==
    ScanOnMap =>
        /\ \A p \in ExistingPaths : NoError(p) => EntryCurrent(p)
        /\ \A p, q \in ExistingPaths :
              (/\ p # q
               /\ SessionId(p) = SessionId(q)
               /\ NoError(p) /\ NoError(q)
               /\ files[p].mtime # files[q].mtime) =>
                  LET b == EntryOf(scan.before, SessionId(p)) IN
                  IF b # NoFile /\ HasSchemaKeys(b) /\ b.mtime >= files[NewerOf(p, q)].mtime
                  THEN cache[SessionId(p)] = b
                  ELSE /\ cache[SessionId(p)].file_path = NewerOf(p, q)
                       /\ cache[SessionId(p)].mtime = files[NewerOf(p, q)].mtime

\* the older of two files with the same base name was enumerated first and
\* stored, and the newer one replaced it in the same scan
C28_Witness ==
    /\ ScanOnMap
    /\ {"pA/s1", "pB/s1"} \subseteq DOMAIN scan.log
    /\ NoError("pA/s1") /\ NoError("pB/s1")
    /\ scan.log["pA/s1"].stored
    /\ scan.log["pB/s1"].stored
    /\ files["pA/s1"].mtime < files["pB/s1"].mtime
    /\ cache["s1"].file_path = "pB/s1"
    /\ cache["s1"].mtime = files["pB/s1"].mtime

(***************************************************************************)
(* C29.  The set of cached session ids never shrinks.  No step of a        *)
(* process (a scan, or a log file being created, modified or deleted)      *)
(* takes a key out of the cache, and a scan keeps every key it started     *)
(* from.  The record of a session id for which no log file is left stays   *)
(* as it was, and read of it answers that the session file is not on       *)
(* disk.                                                                   *)
(***************************************************************************)
NoLogFile(sid) == \A p \in ExistingPaths : SessionId(p) # sid

SessionChars(sid) == IF sid = "s1" THEN <<"s", "1">> ELSE <<"s", "2">>

\* the cache as read sees it: os.path.exists(file_path) at read.py line 93
CachedSessions ==
    LET ids == SelectSeq(<<"s1", "s2">>, LAMBDA sid : sid \in DOMAIN cache)
    IN  [k \in 1..Len(ids) |->
            [sessionId |-> SessionChars(ids[k]), timestamp |-> 1,
             exists |-> cache[ids[k]].file_path \in ExistingPaths,
             log |-> <<>>]]

KeptFrom(before) ==
    \A sid \in DOMAIN before :
        /\ sid \in DOMAIN cache'
        /\ NoLogFile(sid)' =>
              /\ cache'[sid] = before[sid]
              /\ \A cmd \in ReadCmds :
                    read(CachedSessions', SessionChars(sid), cmd).kind = "no_file"

\* C29: no step removes a cached session id, and the record of a session
\* without log file stays unchanged and reads as not found on disk.
C29_CachedIdsNeverRemoved ==
    [][/\ (/\ cache_loaded /\ cache_loaded'
           /\ cacheShape = "map" /\ cacheShape' = "map") => KeptFrom(cache)
       /\ ScanOnMapDone(scan') => KeptFrom(scan'.before)]_vars

\* a scan that stored the record of another file while the session s1,
\* whose only log file was deleted, kept its record
C29_Witness ==
    /\ ScanOnMap
    /\ "s1" \in DOMAIN scan.before
    /\ NoLogFile("s1")
    /\ scan.writes = 1
    /\ "s1" \in DOMAIN cache
    /\ cache["s1"] = scan.before["s1"]
    /\ cache["s1"].file_path = "pA/s1"
    /\ \A cmd \in ReadCmds :
          read(CachedSessions, SessionChars("s1"), cmd).kind = "no_file"

(***************************************************************************)
(* C30.  resolve_session_id returns an id only if it is a key of the       *)
(* cache.  A string that equals a cached id resolves to it, also when it   *)
(* is a proper prefix of other cached ids.  Otherwise a prefix of exactly  *)
(* one cached id resolves to that id, a prefix of several gives the list   *)
(* of all of them, and a prefix of none gives the not-found error.         *)
(***************************************************************************)
CachedIds == {sessions[k].sessionId : k \in 1..Len(sessions)}

Resolved == resolve_session_id(readOut.session_id, sessions)

C30_ExactMatchBeforePrefix ==
    readOut.command \in {"read", "episodes"} =>
        LET partial_id == readOut.session_id
            all == {sessions[k].sessionId : k \in PrefixMatches(partial_id)}
        IN  /\ Resolved.full_id # <<>> => Resolved.full_id \in CachedIds
            /\ readOut.payload.kind = "episodes" =>
                  readOut.payload.sessionId = Resolved.full_id
            /\ readOut.payload.kind = "matches" <=> Resolved.kind = "matches"
            /\ readOut.payload.kind = "not_found" <=> Resolved.kind = "error"
            /\ IF partial_id \in CachedIds
               THEN Resolved.full_id = partial_id /\ Resolved.kind = "ok"
               ELSE CASE Cardinality(all) = 1 ->
                           /\ Resolved.kind = "ok"
                           /\ all = {Resolved.full_id}
                      [] Cardinality(all) > 1 ->
                           /\ Resolved.kind = "matches"
                           /\ Resolved.full_id = <<>>
                           /\ Range(Resolved.matches) = all
                           /\ Len(Resolved.matches) = Cardinality(all)
                      [] OTHER ->
                           /\ Resolved.kind = "error"
                           /\ Resolved.full_id = <<>>

\* the overview of a session whose id is also a proper prefix of two
\* other cached ids
C30_Witness ==
    /\ readOut.command = "episodes"
    /\ readOut.session_id \in CachedIds
    /\ Cardinality(PrefixMatches(readOut.session_id)) = 3
    /\ readOut.payload.kind = "episodes"
    /\ readOut.payload.sessionId = readOut.session_id

=============================================================================
